---- MODULE Spec2Model ----
(***************************************************************************)
(* Model of the expert server of hivemind.moe.server: checkpoint           *)
(* persistence (checkpoints.py), expert uid generation, the Server         *)
(* factory and the background_server helper (server.py).                   *)
(***************************************************************************)
EXTENDS Integers, Sequences, FiniteSets, TLC

\* ------------------------------------------------------------------ bounds
\* store_experts calls made in one behaviour of the checkpoint specification
MaxStores == 3

\* largest num_experts and num_layers given to _generate_uids
MaxExperts == 3
MaxLayers == 2

\* ------------------------------------------------------------ value spaces
\* names of the hosted experts (keys of the experts dict)
ExpertNames == {"ffn.0.0", "ffn.0.1"}
\* values of the one weight of an expert module
WeightValues == {0, 1}
\* values of the backend (optimizer/scheduler) state of an expert
OptValues == {0, 1}
\* the experts built with an optimizer (optim_cls given); the backend state of
\* the others never changes
Optimized == {"ffn.0.0"}

None == "None"

VARIABLES
    weight,      \* expert name -> the module's weight (in memory)
    optstate,    \* expert name -> the backend's optimizer state (in memory)
    ckpt,        \* the real checkpoint directory: a directory node
    stamps,      \* the timestamps of the store_experts calls made so far
    stored,      \* the experts' state at the most recent store_experts
    last,        \* the most recent call and how it ended
    uidArgs,     \* the arguments of the _generate_uids call
    uidResult,   \* what the _generate_uids call returned or raised
    peers,       \* two servers on one DHT: where each is in Server.create
    declared,    \* the experts declared on that DHT, and by which peer
    cfg,         \* the arguments background_server was entered with
    ppc,         \* where the parent is in background_server
    cpc,         \* where the child's main thread is in _server_runner
    tpc,         \* where the server thread is in Server.run
    toParent,    \* the pipe, child to parent: messages sent and not received
    toChild,     \* the pipe, parent to child
    loads,       \* per expert built by create: its _load_expert_weights call
    server,      \* the Server object of the child
    h,           \* history: what has happened so far
    hfArgs,      \* the arguments of load_expert_from_hf and the repository
    hfExpert,    \* the state dictionary of the expert it loads into
    bnbArgs,     \* the arguments of replace_with_bnb_layers
    bnbOut,      \* the model after the call
    tmpdirname,      \* the TemporaryDirectory of the store cycle that is running
    storing,     \* where that store_experts call is, and how it ended
    call,        \* the caller's arguments to Server(...) and run_in_background
    lpc,         \* where the caller, the server thread and the saver thread are
    lsd,         \* per thread: where it is inside Server.shutdown
    comp         \* the components the Server owns, and what has happened

ckptVars == <<weight, optstate, ckpt, stamps, stored, last>>
uidVars == <<uidArgs, uidResult, peers, declared>>
srvVars == <<cfg, ppc, cpc, tpc, toParent, toChild, loads, server, h>>
\* the checkpoint variables a server step never touches
ckptOnly == <<weight, optstate, stamps, stored, last>>
hfVars == <<hfArgs, hfExpert>>
\* the variables of the components below, which the steps above never touch
bnbVars == <<bnbArgs, bnbOut>>
stepVars == <<tmpdirname, storing>>
lifeVars == <<call, lpc, lsd, comp>>
extVars == <<hfVars, bnbVars, stepVars, lifeVars>>
\* what a step of the server's lifecycle never touches
lifeRest == <<weight, optstate, stored, last, uidVars, cfg, ppc, cpc, tpc,
              toParent, toChild, loads, h, hfVars, bnbVars, stepVars>>

\* ------------------------------------------------------- the file system
File(data) == [kind |-> "file", data |-> data]
Symlink(target) == [kind |-> "symlink", target |-> target]
Dir(entries) == [kind |-> "dir", entries |-> entries]
EmptyDir == Dir(<<>>)

ModuleLink == "module.safetensors"
BackendLink == "checkpoint_last.safetensors"
ModuleFile(ts) == "module_" \o ToString(ts) \o ".safetensors"
BackendFile(ts) == "checkpoint_" \o ToString(ts) \o ".safetensors"

\* no node: what a missing path looks up to
NoNode == [kind |-> "none"]

\* the node at a path (a sequence of names) below a directory node
RECURSIVE Lookup(_, _)
Lookup(node, path) ==
    IF path = <<>> THEN node
    ELSE IF node.kind # "dir" THEN NoNode
    ELSE IF Head(path) \notin DOMAIN node.entries THEN NoNode
    ELSE Lookup(node.entries[Head(path)], Tail(path))

\* the bytes a path resolves to: a symlink is followed into the tree of its
\* target's root; the staging directory no longer exists once store_experts
\* has returned, so `staging` is NoNode then and the link dangles
Resolve(node, staging) ==
    IF node.kind = "symlink" THEN Lookup(staging, node.target) ELSE node

\* safetensors container
save_safetensor(tensors) == [format |-> "safetensors", tensors |-> tensors]
load_safetensor(data) == data.tensors

\* ModuleBackend.state_dict(): (module_state_dict, backend_state_dict)
state_dict(w, o) == <<[weight |-> w], [optimizer |-> o]>>

\* copy2 with follow_symlinks=False: the link itself is copied
copy2_nofollow(src_entry, staging) == src_entry

\* shutil.copy2 follows symlinks: the destination is a regular file
copy2(src_entry, staging) == Resolve(src_entry, staging)

\* a copy that replaces the destination instead of merging into it
RECURSIVE copy_tree_replace(_, _, _)
copy_tree_replace(src, dst, staging) ==
    Dir([item \in DOMAIN src.entries |->
          IF src.entries[item].kind = "dir"
          THEN copy_tree_replace(src.entries[item], NoNode, staging)
          ELSE Resolve(src.entries[item], staging)])

RECURSIVE copy_tree(_, _, _)
copy_tree(src, dst, staging) ==
    LET made == IF dst.kind = "none" THEN EmptyDir ELSE dst
        items == DOMAIN src.entries
        old == DOMAIN made.entries
    IN Dir([item \in old \cup items |->
             IF item \notin items THEN made.entries[item]
             ELSE IF src.entries[item].kind = "dir"
                  THEN copy_tree(src.entries[item],
                                 IF item \in old THEN made.entries[item] ELSE NoNode,
                                 staging)
                  ELSE copy2(src.entries[item], staging)])

\* the staged directory of one expert (checkpoints.py lines 67-75)
StageExpert(expert_name, w, o, timestamp) ==
    LET sd == state_dict(w, o)
        m == ModuleFile(timestamp)
        b == BackendFile(timestamp)
    IN Dir([n \in {m, b, ModuleLink, BackendLink} |->
             IF n = m THEN File(save_safetensor(sd[1]))
             ELSE IF n = b THEN File(save_safetensor(sd[2]))
             ELSE IF n = ModuleLink THEN Symlink(<<expert_name, m>>)
             ELSE Symlink(<<expert_name, b>>)])

\* the whole staging directory
Stage(experts, ws, os, timestamp) ==
    Dir([e \in experts |-> StageExpert(e, ws[e], os[e], timestamp)])

\* store_experts: the checkpoint directory after the call
store_experts(experts, ws, os, checkpoint_dir, timestamp) ==
    LET tmpdir == Stage(experts, ws, os, timestamp)
    IN copy_tree(tmpdir, checkpoint_dir, tmpdir)

\* ---------------------------------------------------------- load_expert
\* def load_expert(expert: nn,Module, expert_name: str, checkpoint_dir: Path)
load_expert_params == <<"expert", "Module", "expert_name", "checkpoint_dir">>

\* the result of a call with positional arguments args: the weight the
\* expert has afterwards and what was raised
load_expert(args, w, dir) ==
    IF Len(args) # Len(load_expert_params)
    THEN [weight |-> w, raised |-> "TypeError", warned |-> FALSE]
    ELSE LET expert_name == args[3]
             latest == Resolve(Lookup(dir, <<expert_name, ModuleLink>>), NoNode)
         IN IF latest.kind = "file"
            THEN [weight |-> load_safetensor(latest.data).weight,
                  raised |-> None, warned |-> FALSE]
            ELSE [weight |-> w, raised |-> None, warned |-> TRUE]

\* --------------------------------------------------------------- actions
NoCall == [op |-> "none", expert |-> None, raised |-> None, nargs |-> 0]

\* expert.weight.data[0] = v
SetWeight(e, v) ==
    /\ weight' = [weight EXCEPT ![e] = v]
    /\ last' = NoCall
    /\ UNCHANGED <<optstate, ckpt, stamps, stored, uidVars, srvVars, extVars>>

\* an optimizer step of the backend of e
OptimizerStep(e, v, o) ==
    /\ weight' = [weight EXCEPT ![e] = v]
    /\ optstate' = [optstate EXCEPT ![e] = o]
    /\ last' = NoCall
    /\ UNCHANGED <<ckpt, stamps, stored, uidVars, srvVars, extVars>>

\* store_experts(experts, checkpoint_dir) at a time not before the last call's
StoreExperts(timestamp) ==
    /\ Len(stamps) < MaxStores
    /\ ckpt' = store_experts(ExpertNames, weight, optstate, ckpt, timestamp)
    /\ stamps' = Append(stamps, timestamp)
    /\ stored' = [w |-> weight, o |-> optstate]
    /\ last' = [op |-> "store", expert |-> None, raised |-> None, nargs |-> 0]
    /\ UNCHANGED <<weight, optstate, uidVars, srvVars, extVars>>

NextStamp ==
    IF stamps = <<>> THEN {0}
    ELSE {stamps[Len(stamps)], stamps[Len(stamps)] + 1}

\* load_expert(expert, expert_name, checkpoint_dir), as its callers write it
LoadExpert3(e) ==
    LET r == load_expert(<<"expert", e, "checkpoint_dir">>, weight[e], ckpt)
    IN /\ weight' = [weight EXCEPT ![e] = r.weight]
       /\ last' = [op |-> "load", expert |-> e, raised |-> r.raised, nargs |-> 3]
       /\ UNCHANGED <<optstate, ckpt, stamps, stored, uidVars, srvVars, extVars>>

\* a call that fills all four parameters of the signature
LoadExpert4(e) ==
    LET r == load_expert(<<"expert", "Module", e, "checkpoint_dir">>, weight[e], ckpt)
    IN /\ weight' = [weight EXCEPT ![e] = r.weight]
       /\ last' = [op |-> "load", expert |-> e, raised |-> r.raised, nargs |-> 4]
       /\ UNCHANGED <<optstate, ckpt, stamps, stored, uidVars, srvVars, extVars>>

CkptNext ==
    \/ \E e \in ExpertNames, v \in WeightValues : SetWeight(e, v)
    \/ \E e \in Optimized, v \in WeightValues, o \in OptValues : OptimizerStep(e, v, o)
    \/ \E t \in NextStamp : StoreExperts(t)
    \/ \E e \in ExpertNames : LoadExpert3(e)
    \/ \E e \in ExpertNames : LoadExpert4(e)

\* ------------------------------------------------------- _generate_uids
\* expert_pattern: literal text and the named placeholders of str.format
ExpertPattern == <<"ffn", ".", "{layer_id}", ".", "{expert_id}">>

\* expert_pattern.format(expert_id=expert_id, layer_id=layer_id)
RECURSIVE Format(_, _, _)
Format(pattern, expert_id, layer_id) ==
    IF pattern = <<>> THEN ""
    ELSE LET part == Head(pattern)
             text == IF part = "{layer_id}" THEN ToString(layer_id)
                     ELSE IF part = "{expert_id}" THEN ToString(expert_id)
                     ELSE part
         IN text \o Format(Tail(pattern), expert_id, layer_id)

\* the placeholders filled the wrong way round
_generate_uid_swapped(expert_pattern, layer_id, expert_id) ==
    Format(expert_pattern, layer_id, expert_id)

_generate_uid(expert_pattern, layer_id, expert_id) ==
    Format(expert_pattern, expert_id, layer_id)

ExpertUID(uid, expert_id, layer_id) ==
    [uid |-> uid, expert_id |-> expert_id, layer_id |-> layer_id]

\* for expert_id in range(num_experts): append
RECURSIVE ExpertLoop(_, _, _, _, _)
ExpertLoop(expert_pattern, layer_id, expert_id, num_experts, new_uids) ==
    IF expert_id >= num_experts THEN new_uids
    ELSE ExpertLoop(expert_pattern, layer_id, expert_id + 1, num_experts,
                    Append(new_uids,
                           ExpertUID(_generate_uid(expert_pattern, layer_id, expert_id),
                                     expert_id, layer_id)))

\* for layer_id in range(layers_start, num_layers)
RECURSIVE LayerLoop(_, _, _, _, _)
LayerLoop(expert_pattern, layer_id, num_layers, num_experts, new_uids) ==
    IF layer_id >= num_layers THEN new_uids
    ELSE LayerLoop(expert_pattern, layer_id + 1, num_layers, num_experts,
                   ExpertLoop(expert_pattern, layer_id, 0, num_experts, new_uids))

\* dht: None, or a DHT that holds the registered uids
NoDHT == [given |-> FALSE, registered |-> {}]
DHT(registered) == [given |-> TRUE, registered |-> registered]

\* get_experts(dht, uids): per uid the registered expert or None
get_experts(dht, uids) ==
    [i \in 1..Len(uids) |-> IF uids[i] \in dht.registered THEN uids[i] ELSE None]

\* a check that finds nothing, whatever the DHT holds
conflict_never(found) == FALSE

\* for f in found: if f is not None: raise NameError
conflict(found) == \E i \in 1..Len(found) : found[i] # None

_generate_uids(num_experts, num_layers, layers_start, expert_pattern, dht) ==
    LET new_uids == LayerLoop(expert_pattern, layers_start, num_layers, num_experts, <<>>)
        found == get_experts(dht, [i \in 1..Len(new_uids) |-> new_uids[i].uid])
    IN IF dht.given /\ conflict(found)
       THEN [done |-> TRUE, raised |-> "NameError", uids |-> <<>>]
       ELSE [done |-> TRUE, raised |-> None, uids |-> new_uids]

\* uids some other peer may have registered in the DHT
OtherUids == {"ffn.0.0", "ffn.1.2", "ffn.2.0", "gpt.0.0"}

UidNotRun == [done |-> FALSE, raised |-> None, uids |-> <<>>]

GenerateUids ==
    /\ ~uidResult.done
    /\ uidResult' = _generate_uids(uidArgs.num_experts, uidArgs.num_layers,
                                   uidArgs.layers_start, ExpertPattern, uidArgs.dht)
    /\ UNCHANGED <<uidArgs, peers, declared, ckptVars, srvVars, extVars>>

UidNext == GenerateUids

\* ------------------------------------------- two servers on the same DHT
\* the servers that run Server.create concurrently
Peers == {"A", "B"}

\* get_experts as one peer's DHT node answers it: the uids any peer declared
dht_of(decl) == DHT({d.uid : d \in decl})

\* DHTHandlerThread.run: declare_experts(dht, module_backends.keys())
declare_experts(decl, peer, uids) ==
    decl \cup {[uid |-> uids[i].uid, peer |-> peer] : i \in 1..Len(uids)}

NoPeer ==
    [pc |-> "idle", num_experts |-> 0, num_layers |-> 0, layers_start |-> 0,
     uids |-> <<>>, seen |-> {}, raised |-> None]
NoPeers == [p \in Peers |-> NoPeer]

\* create, line 167: expert_uids = _generate_uids(..., expert_pattern, dht)
CreateGenerateUids(p) ==
    /\ peers[p].pc = "create"
    /\ LET a == peers[p]
           gen == _generate_uids(a.num_experts, a.num_layers, a.layers_start,
                                 ExpertPattern, dht_of(declared))
       IN peers' = [peers EXCEPT ![p] =
                      [a EXCEPT !.pc = IF gen.raised # None THEN "failed" ELSE "building",
                                !.uids = gen.uids,
                                !.seen = {d.uid : d \in declared},
                                !.raised = gen.raised]]
    /\ UNCHANGED <<declared, uidArgs, uidResult, ckptVars, srvVars, extVars>>

\* create, lines 184-217: the experts are built and the Server is made with
\* start=True, which starts the server thread
CreateServer(p) ==
    /\ peers[p].pc = "building"
    /\ peers' = [peers EXCEPT ![p].pc = "starting"]
    /\ UNCHANGED <<declared, uidArgs, uidResult, ckptVars, srvVars, extVars>>

\* run, lines 248-249: if self.module_backends: dht_handler_thread.start(),
\* which declares the hosted experts on the DHT
RunDeclare(p) ==
    /\ peers[p].pc = "starting"
    /\ declared' = IF peers[p].uids # <<>>
                   THEN declare_experts(declared, p, peers[p].uids)
                   ELSE declared
    /\ peers' = [peers EXCEPT ![p].pc = "hosting"]
    /\ UNCHANGED <<uidArgs, uidResult, ckptVars, srvVars, extVars>>

PeersNext ==
    \/ \E p \in Peers : CreateGenerateUids(p)
    \/ \E p \in Peers : CreateServer(p)
    \/ \E p \in Peers : RunDeclare(p)

\* ------------------------------------------------------- Server.create
FreshWeight == "fresh"
HfWeight == "hf"

\* Python truth of an optional path or repository id
Truthy(x) == x # None

\* the conditions with `or` in place of `and not`
_load_expert_weights_or(expert_uid, checkpoint_dir, hugginface_rep) ==
    IF Truthy(checkpoint_dir)
    THEN <<[fn |-> "load_expert",
            args |-> <<"expert", expert_uid.uid, checkpoint_dir>>]>>
    ELSE IF Truthy(hugginface_rep)
    THEN <<[fn |-> "load_expert_from_hf",
            args |-> <<"expert", hugginface_rep,
                       expert_uid.expert_id, expert_uid.layer_id>>]>>
    ELSE <<>>

\* the call _load_expert_weights makes for one expert, if any
_load_expert_weights(expert_uid, checkpoint_dir, hugginface_rep) ==
    IF Truthy(checkpoint_dir) /\ ~Truthy(hugginface_rep)
    THEN <<[fn |-> "load_expert",
            args |-> <<"expert", expert_uid.uid, checkpoint_dir>>]>>
    ELSE IF ~Truthy(checkpoint_dir) /\ Truthy(hugginface_rep)
    THEN <<[fn |-> "load_expert_from_hf",
            args |-> <<"expert", hugginface_rep,
                       expert_uid.expert_id, expert_uid.layer_id>>]>>
    ELSE <<>>

\* load_expert_from_hf(expert, repo_id, expert_id, layer_id): the download
\* succeeds or raises
load_expert_from_hf(args, w, fails) ==
    IF fails THEN [weight |-> w, raised |-> "OSError"]
    ELSE [weight |-> HfWeight, raised |-> None]

\* one pass of the loop `for expert_uid in expert_uids` of create: the expert
\* is made, its weights are loaded; what it ends with
BuildExpert(expert_uid, checkpoint_dir, hugginface_rep, dir, hf_fails) ==
    LET calls == _load_expert_weights(expert_uid, checkpoint_dir, hugginface_rep)
        r == IF calls = <<>> THEN [weight |-> FreshWeight, raised |-> None]
             ELSE IF calls[1].fn = "load_expert"
             THEN LET l == load_expert(calls[1].args, FreshWeight, dir)
                  IN [weight |-> l.weight, raised |-> l.raised]
             ELSE load_expert_from_hf(calls[1].args, FreshWeight, hf_fails)
    IN [uid |-> expert_uid.uid, calls |-> calls,
        weight |-> r.weight, raised |-> r.raised]

\* the loop: it ends at the first expert whose load raises
RECURSIVE BuildExperts(_, _, _, _, _, _, _)
BuildExperts(expert_uids, i, checkpoint_dir, hugginface_rep, dir, hf_fail_at, built) ==
    IF i > Len(expert_uids) THEN built
    ELSE LET b == BuildExpert(expert_uids[i], checkpoint_dir, hugginface_rep,
                              dir, hf_fail_at = i)
         IN IF b.raised # None THEN Append(built, b)
            ELSE BuildExperts(expert_uids, i + 1, checkpoint_dir, hugginface_rep,
                              dir, hf_fail_at, Append(built, b))

NoServer ==
    [made |-> FALSE, module_backends |-> <<>>, checkpoint_saver |-> None,
     ready |-> FALSE, runtime_shutdown |-> FALSE]

\* Server.__init__ with a CheckpointSaver whose constructor does not store
Server_init_no_store(module_backends, checkpoint_dir, dir) ==
    [server |-> [made |-> TRUE,
                 module_backends |-> module_backends,
                 checkpoint_saver |->
                     IF checkpoint_dir # None THEN "CheckpointSaver" ELSE None,
                 ready |-> FALSE, runtime_shutdown |-> FALSE],
     dir |-> dir]

\* Server.__init__ up to `if start:`: the server object and the checkpoint
\* directory after the CheckpointSaver's first store
Server_init(module_backends, checkpoint_dir, dir) ==
    LET names == {module_backends[i].uid : i \in 1..Len(module_backends)}
        ws == [n \in names |->
                (CHOOSE i \in 1..Len(module_backends) : module_backends[i].uid = n)]
    IN [server |-> [made |-> TRUE,
                    module_backends |-> module_backends,
                    checkpoint_saver |->
                        IF checkpoint_dir # None THEN "CheckpointSaver" ELSE None,
                    ready |-> FALSE, runtime_shutdown |-> FALSE],
        dir |-> IF checkpoint_dir # None
                THEN store_experts(names,
                                   [n \in names |-> module_backends[ws[n]].weight],
                                   [n \in names |-> 0], dir, 0)
                ELSE dir]

\* the arguments of `return cls(...)` in create: checkpoint_dir is not
\* among them, so __init__ sees its default
create_init_args(checkpoint_dir) == [checkpoint_dir |-> None]

\* Server.create up to the start of the server thread
create(c, dir, hf_fail_at) ==
    LET gen == _generate_uids(c.num_experts, c.num_layers, c.layers_start,
                              ExpertPattern, DHT(c.registered))
        built == BuildExperts(gen.uids, 1, c.checkpoint_dir, c.hugginface_rep,
                              dir, hf_fail_at, <<>>)
        failed == built # <<>> /\ built[Len(built)].raised # None
        init == Server_init(built, create_init_args(c.checkpoint_dir).checkpoint_dir, dir)
    IN IF gen.raised # None
       THEN [raised |-> gen.raised, loads |-> <<>>, server |-> NoServer, dir |-> dir]
       ELSE IF failed
       THEN [raised |-> built[Len(built)].raised, loads |-> built,
             server |-> NoServer, dir |-> dir]
       ELSE [raised |-> None, loads |-> built,
             server |-> init.server, dir |-> init.dir]

\* PeerInfo(server.dht.peer_id, dht_maddrs)
PeerInfo == [peer_id |-> "peer", addrs |-> "maddrs"]

\* a runner that reports success whatever create did
runner_message_always_ok(raised) == [ok |-> TRUE, data |-> PeerInfo]

\* what _server_runner sends for an outcome of create
runner_message(raised) ==
    IF raised = None THEN [ok |-> TRUE, data |-> PeerInfo]
    ELSE [ok |-> FALSE, data |-> raised]

NoHistory ==
    [create |-> "pending", error |-> None, sent |-> <<>>, got |-> <<>>,
     yielded |-> FALSE, token |-> FALSE,
     block |-> "none", parentRaised |-> None, killed |-> FALSE,
     threadFailed |-> FALSE]

\* background_server: runner.start()
ParentStart ==
    /\ ppc = "start"
    /\ ppc' = "recv"
    /\ cpc' = "create"
    /\ UNCHANGED <<cfg, tpc, toParent, toChild, loads, server, h, ckpt, ckptOnly, uidVars, extVars>>

\* _server_runner: Server.create(*args, start=True, **kwargs) up to
\* run_in_background's self.start(), or to the exception it raises
ChildCreate(hf_fail_at) ==
    /\ cpc = "create"
    /\ LET r == create(cfg, ckpt, hf_fail_at)
       IN /\ loads' = r.loads
          /\ server' = r.server
          /\ ckpt' = r.dir
          /\ IF r.raised # None
             THEN /\ cpc' = "report_failure"
                  /\ tpc' = tpc
                  /\ h' = [h EXCEPT !.create = "raised", !.error = r.raised]
             ELSE /\ cpc' = "await_ready"
                  /\ tpc' = "starting"
                  /\ h' = h
    /\ UNCHANGED <<cfg, ppc, toParent, toChild, ckptOnly, uidVars, extVars>>

\* Server.run: the runtime comes up and sets its ready event
ThreadReady ==
    /\ tpc = "starting"
    /\ tpc' = "serving"
    /\ server' = [server EXCEPT !.ready = TRUE]
    /\ UNCHANGED <<cfg, ppc, cpc, toParent, toChild, loads, h, ckpt, ckptOnly, uidVars, extVars>>

\* Server.run: a step before the runtime is ready raises; the thread ends
\* (through shutdown() if it was inside the try)
ThreadFail ==
    /\ tpc = "starting"
    /\ tpc' = "dead"
    /\ server' = [server EXCEPT !.ready = FALSE]
    /\ h' = [h EXCEPT !.threadFailed = TRUE]
    /\ UNCHANGED <<cfg, ppc, cpc, toParent, toChild, loads, ckpt, ckptOnly, uidVars, extVars>>

\* run_in_background: self.ready.wait(timeout=None) returns; create returns
ChildReady ==
    /\ cpc = "await_ready"
    /\ server.ready
    /\ cpc' = "report_success"
    /\ h' = [h EXCEPT !.create = "returned"]
    /\ UNCHANGED <<cfg, ppc, tpc, toParent, toChild, loads, server, ckpt, ckptOnly, uidVars, extVars>>

\* _server_runner: pipe.send((True, PeerInfo(...)))
ChildSendOk ==
    /\ cpc = "report_success"
    /\ LET m == runner_message(None)
       IN /\ toParent' = Append(toParent, m)
          /\ h' = [h EXCEPT !.sent = Append(@, m)]
    /\ cpc' = "wait_shutdown"
    /\ UNCHANGED <<cfg, ppc, tpc, toChild, loads, server, ckpt, ckptOnly, uidVars, extVars>>

\* _server_runner: pipe.send((False, ...)); return
ChildSendFail ==
    /\ cpc = "report_failure"
    /\ LET m == runner_message(h.error)
       IN /\ toParent' = Append(toParent, m)
          /\ h' = [h EXCEPT !.sent = Append(@, m)]
    /\ cpc' = "exited"
    /\ UNCHANGED <<cfg, ppc, tpc, toChild, loads, server, ckpt, ckptOnly, uidVars, extVars>>

\* _server_runner: pipe.recv() returns the shutdown signal
ChildRecvToken ==
    /\ cpc = "wait_shutdown"
    /\ toChild # <<>>
    /\ toChild' = Tail(toChild)
    /\ cpc' = "shutdown"
    /\ UNCHANGED <<cfg, ppc, tpc, toParent, loads, server, h, ckpt, ckptOnly, uidVars, extVars>>

\* _server_runner: server.shutdown()
ChildShutdown ==
    /\ cpc = "shutdown"
    /\ server' = [server EXCEPT !.ready = FALSE, !.runtime_shutdown = TRUE]
    /\ cpc' = "join"
    /\ UNCHANGED <<cfg, ppc, tpc, toParent, toChild, loads, h, ckpt, ckptOnly, uidVars, extVars>>

\* Server.run: runtime.run() returns after runtime.shutdown(); finally
\* shutdown(); the thread ends
ThreadStop ==
    /\ tpc = "serving"
    /\ server.runtime_shutdown
    /\ tpc' = "dead"
    /\ UNCHANGED <<cfg, ppc, cpc, toParent, toChild, loads, server, h, ckpt, ckptOnly, uidVars, extVars>>

\* _server_runner: server.join() returns; the process exits
ChildJoin ==
    /\ cpc = "join"
    /\ tpc = "dead"
    /\ cpc' = "exited"
    /\ UNCHANGED <<cfg, ppc, tpc, toParent, toChild, loads, server, h, ckpt, ckptOnly, uidVars, extVars>>

\* background_server: start_ok, data = pipe.recv(); yield or raise
ParentRecv ==
    /\ ppc = "recv"
    /\ toParent # <<>>
    /\ LET m == Head(toParent)
       IN /\ toParent' = Tail(toParent)
          /\ IF m.ok
             THEN /\ ppc' = "yielded"
                  /\ h' = [h EXCEPT !.got = Append(@, m), !.yielded = TRUE]
             ELSE /\ ppc' = "join"
                  /\ h' = [h EXCEPT !.got = Append(@, m),
                                    !.parentRaised = "RuntimeError"]
    /\ UNCHANGED <<cfg, cpc, tpc, toChild, loads, server, ckpt, ckptOnly, uidVars, extVars>>

\* the caller's block ends normally: pipe.send("SHUTDOWN"), then finally
BlockReturns ==
    /\ ppc = "yielded"
    /\ toChild' = Append(toChild, "SHUTDOWN")
    /\ ppc' = "join"
    /\ h' = [h EXCEPT !.block = "returned", !.token = TRUE]
    /\ UNCHANGED <<cfg, cpc, tpc, toParent, loads, server, ckpt, ckptOnly, uidVars, extVars>>

\* the caller's block raises: the exception is thrown into the generator at
\* the yield and goes straight to finally
BlockRaises ==
    /\ ppc = "yielded"
    /\ ppc' = "join"
    /\ h' = [h EXCEPT !.block = "raised", !.parentRaised = "BlockError"]
    /\ UNCHANGED <<cfg, cpc, tpc, toParent, toChild, loads, server, ckpt, ckptOnly, uidVars, extVars>>

\* finally: runner.join(timeout) returns because the child has exited
ParentJoined ==
    /\ ppc = "join"
    /\ cpc = "exited"
    /\ ppc' = "done"
    /\ UNCHANGED <<cfg, cpc, tpc, toParent, toChild, loads, server, h, ckpt, ckptOnly, uidVars, extVars>>

\* finally: shutdown_timeout passes with the child alive; runner.kill()
ParentKills ==
    /\ ppc = "join"
    /\ cpc # "exited"
    /\ ppc' = "done"
    /\ cpc' = "killed"
    /\ tpc' = IF tpc \in {"starting", "serving"} THEN "killed" ELSE tpc
    /\ h' = [h EXCEPT !.killed = TRUE]
    /\ UNCHANGED <<cfg, toParent, toChild, loads, server, ckpt, ckptOnly, uidVars, extVars>>

SrvNext ==
    \/ ParentStart
    \/ \E k \in 0..cfg.num_experts : ChildCreate(k)
    \/ ThreadReady
    \/ ThreadFail
    \/ ChildReady
    \/ ChildSendOk
    \/ ChildSendFail
    \/ ChildRecvToken
    \/ ChildShutdown
    \/ ThreadStop
    \/ ChildJoin
    \/ ParentRecv
    \/ BlockReturns
    \/ BlockRaises
    \/ ParentJoined
    \/ ParentKills

\* ------------------------------------------------------------ hf_loader
\* the layer and expert indices tried, and the shard files of the repository
HfLayerIds == {0, 2}
HfExpertIds == {1, 5}
HfWs == {"w1", "w2", "w3"}
ShardNames == {"model-00001.safetensors", "model-00002.safetensors"}
IndexJson == "model.safetensors.index.json"

\* the parameter names of the repository's experts
ParamNames ==
    {"model.layers." \o ToString(l) \o ".block_sparse_moe.experts."
       \o ToString(e) \o "." \o w \o ".weight" :
       l \in HfLayerIds, e \in HfExpertIds, w \in HfWs}

\* the tensor a shard file holds under a name
Tensor(shard, name) == [shard |-> shard, name |-> name]

\* a repository: the index file with its weight map, and the shard files
Repo(weight_map) ==
    Dir([f \in ShardNames \cup {IndexJson} |->
          IF f = IndexJson THEN File([weight_map |-> weight_map])
          ELSE File(save_safetensor([n \in ParamNames |-> Tensor(f, n)]))])

\* mixtral_rules with the two indices in each other's place
mixtral_rules_swapped(layer_id, expert_id) ==
    ("model.layers." \o ToString(expert_id) \o ".block_sparse_moe.experts."
        \o ToString(layer_id) \o ".w1.weight" :> "block.w1.weight")
    @@ ("model.layers." \o ToString(expert_id) \o ".block_sparse_moe.experts."
        \o ToString(layer_id) \o ".w2.weight" :> "block.w2.weight")
    @@ ("model.layers." \o ToString(expert_id) \o ".block_sparse_moe.experts."
        \o ToString(layer_id) \o ".w3.weight" :> "block.w3.weight")

mixtral_rules(layer_id, expert_id) ==
    ("model.layers." \o ToString(layer_id) \o ".block_sparse_moe.experts."
        \o ToString(expert_id) \o ".w1.weight" :> "block.w1.weight")
    @@ ("model.layers." \o ToString(layer_id) \o ".block_sparse_moe.experts."
        \o ToString(expert_id) \o ".w2.weight" :> "block.w2.weight")
    @@ ("model.layers." \o ToString(layer_id) \o ".block_sparse_moe.experts."
        \o ToString(expert_id) \o ".w3.weight" :> "block.w3.weight")

\* json.load(open(path))["weight_map"]
load_weights_map_from_json(repo) == repo.entries[IndexJson].data.weight_map

\* hf_hub_download(repo_id, filename): the downloaded file
hf_hub_download(repo, filename) == repo.entries[filename]

get_state_dict_by_key(key, weigths_map, repo) ==
    LET filename == weigths_map[key]
        normally_path == hf_hub_download(repo, filename)
    IN load_safetensor(normally_path.data)

get_expert_state_dict(state_dict_, key) == state_dict_[key]

\* the state dictionary the expert holds after expert.load_state_dict
_load_weights_from_hf(expert, expert_id, layer_id, repo) ==
    LET weights_map == load_weights_map_from_json(repo)
        rule == mixtral_rules(layer_id, expert_id)
        KeyOf(expert_key) == CHOOSE key \in DOMAIN rule : rule[key] = expert_key
        module_state_dict ==
            [expert_key \in {rule[key] : key \in DOMAIN rule} |->
               get_expert_state_dict(
                   get_state_dict_by_key(KeyOf(expert_key), weights_map, repo),
                   KeyOf(expert_key))]
    IN module_state_dict

\* load_expert_from_hf(expert, repo_id, expert_id, layer_id) of checkpoints.py
load_expert_from_hf_weights(expert, repo, expert_id, layer_id) ==
    _load_weights_from_hf(expert, expert_id, layer_id, repo)

HfNoArgs == [layer_id |-> 0, expert_id |-> 0, repo |-> NoNode]
\* a freshly constructed expert
FreshExpert == [loaded |-> FALSE, state |-> <<>>]

\* load_expert_from_hf on a fresh expert
LoadFromHf ==
    /\ ~hfExpert.loaded
    /\ hfArgs.repo.kind = "dir"
    /\ hfExpert' = [loaded |-> TRUE,
                    state |-> load_expert_from_hf_weights(hfExpert, hfArgs.repo,
                                  hfArgs.expert_id, hfArgs.layer_id)]
    /\ UNCHANGED <<hfArgs, ckptVars, uidVars, srvVars, bnbVars, stepVars, lifeVars>>

HfNext == LoadFromHf

\* ------------------------------------------------------ bnb_quantization
\* strings whose characters the matching looks at: tuples of characters
S_lm_head == <<"l", "m", "_", "h", "e", "a", "d">>
S_xlm_head == <<"x">> \o S_lm_head
S_fc == <<"f", "c">>
S_block == <<"b", "l", "o", "c", "k">>
S_act == <<"a", "c", "t">>
Dot == <<".">>

\* ".".join(names)
RECURSIVE Join(_)
Join(names) ==
    IF names = <<>> THEN <<>>
    ELSE IF Len(names) = 1 THEN names[1]
    ELSE names[1] \o Dot \o Join(Tail(names))

\* sub in str
Contains(sub, str) ==
    \E i \in 0..(Len(str) - Len(sub)) : SubSeq(str, i + 1, i + Len(sub)) = sub

\* name in list
InList(name, list) == \E i \in 1..Len(list) : list[i] = name

\* modules: a torch.nn.Linear, the bitsandbytes layers, any other module
Linear(in_features, out_features, bias, data) ==
    [kind |-> "Linear", in_features |-> in_features, out_features |-> out_features,
     bias |-> bias, weight |-> data, requires_grad |-> TRUE, children |-> <<>>]
Linear4bit(in_features, out_features, bias, compute_dtype, compress_statistics, quant_type) ==
    [kind |-> "Linear4bit", in_features |-> in_features, out_features |-> out_features,
     bias |-> bias, compute_dtype |-> compute_dtype,
     compress_statistics |-> compress_statistics, quant_type |-> quant_type,
     weight |-> "empty", requires_grad |-> TRUE, children |-> <<>>]
Linear8bitLt(in_features, out_features, bias, has_fp16_weights, threshold) ==
    [kind |-> "Linear8bitLt", in_features |-> in_features, out_features |-> out_features,
     bias |-> bias, has_fp16_weights |-> has_fp16_weights, threshold |-> threshold,
     weight |-> "empty", requires_grad |-> TRUE, children |-> <<>>]
Module(children) == [kind |-> "Module", children |-> children]

BASE_QUANT_CONFIG ==
    [load_in_4bit |-> TRUE, load_in_8bit |-> FALSE, bnb_4bit_compute_dtype |-> "float16",
     bnb_4bit_use_double_quant |-> TRUE, bnb_4bit_quant_type |-> "nf4",
     llm_int8_threshold |-> "6.0"]
Config8bit == [BASE_QUANT_CONFIG EXCEPT !.load_in_4bit = FALSE, !.load_in_8bit = TRUE]

\* lines 95-100: no key of the list stops the conversion of the child at
\* current_key_name_str
proceed(modules_to_not_convert, current_key_name_str) ==
    ~ \E i \in 1..Len(modules_to_not_convert) :
        LET key == modules_to_not_convert[i]
        IN \/ /\ Contains(key, current_key_name_str)
              /\ Contains(key \o Dot, current_key_name_str)
           \/ key = current_key_name_str

\* lines 103-124: the layer put in the place of module
bnb_module(module, bnb_quantization_config) ==
    LET made == IF bnb_quantization_config.load_in_8bit
                THEN Linear8bitLt(module.in_features, module.out_features,
                                  module.bias, FALSE,
                                  bnb_quantization_config.llm_int8_threshold)
                ELSE Linear4bit(module.in_features, module.out_features,
                                module.bias,
                                bnb_quantization_config.bnb_4bit_compute_dtype,
                                bnb_quantization_config.bnb_4bit_use_double_quant,
                                bnb_quantization_config.bnb_4bit_quant_type)
    IN [made EXCEPT !.weight = module.weight, !.requires_grad = FALSE]

\* the model after the call, and has_been_replaced; the children are visited
\* one after the other and current_key_name is restored after each, so the
\* result for a child does not depend on the order
RECURSIVE _replace_with_bnb_layers(_, _, _, _)
_replace_with_bnb_layers(model, bnb_quantization_config, modules_to_not_convert, current_key_name) ==
    LET names == DOMAIN model.children
        key_name(name) == Append(current_key_name, name)
        converts(name) ==
            /\ model.children[name].kind = "Linear"
            /\ ~InList(name, modules_to_not_convert)
            /\ proceed(modules_to_not_convert, Join(key_name(name)))
        recursed(name) ==
            IF model.children[name].children # <<>>
            THEN _replace_with_bnb_layers(model.children[name], bnb_quantization_config,
                                          modules_to_not_convert, key_name(name))
            ELSE [model |-> model.children[name], has_been_replaced |-> FALSE]
    IN [model |-> [model EXCEPT !.children =
                     [name \in names |->
                        IF converts(name)
                        THEN bnb_module(model.children[name], bnb_quantization_config)
                        ELSE recursed(name).model]],
        has_been_replaced |->
            \E name \in names : converts(name) \/ recursed(name).has_been_replaced]

\* the argument modules_to_not_convert: left at its default None, or a list
NoList == [given |-> FALSE, list |-> <<>>]
List(list) == [given |-> TRUE, list |-> list]

\* modules_to_not_convert=None becomes []
replace_with_bnb_layers(model, bnb_quantization_config, modules_to_not_convert) ==
    _replace_with_bnb_layers(model, bnb_quantization_config,
        IF ~modules_to_not_convert.given THEN <<>> ELSE modules_to_not_convert.list,
        <<>>).model

\* the places where a model tried may have a Linear, and where it has
\* another module without children
LinearPaths ==
    {<<S_lm_head>>, <<S_fc>>, <<S_block, S_lm_head>>, <<S_block, S_fc>>,
     <<S_lm_head, S_fc>>, <<S_xlm_head, S_fc>>, <<S_block, S_lm_head, S_fc>>}
OtherPaths == {<<S_act>>, <<S_block, S_act>>}

IsPrefix(p, q) == Len(p) <= Len(q) /\ SubSeq(q, 1, Len(p)) = p

\* the sets of places that can be Linear together: none inside another
LinearSets ==
    {S \in SUBSET LinearPaths :
       \A p \in S, q \in S : p # q => ~IsPrefix(p, q)}

\* the module at path of the model with a Linear at the places in linears,
\* those in biased with a bias
RECURSIVE ModuleAt(_, _, _)
ModuleAt(path, linears, biased) ==
    IF path \in linears
    THEN Linear(Len(Join(path)), Len(path), path \in biased, Join(path))
    ELSE LET below == {q \in linears \cup OtherPaths :
                         IsPrefix(path, q) /\ Len(q) > Len(path)}
         IN Module([name \in {q[Len(path) + 1] : q \in below} |->
                      ModuleAt(Append(path, name), linears, biased)])

ExclusionLists == {NoList, List(<<S_lm_head>>), List(<<S_block>>), List(<<S_fc, S_act>>)}

BnbNoArgs == [model |-> Module(<<>>), bnb_quantization_config |-> BASE_QUANT_CONFIG,
              modules_to_not_convert |-> NoList]
BnbNotRun == [done |-> FALSE, model |-> Module(<<>>)]

\* replace_with_bnb_layers(model, bnb_quantization_config, modules_to_not_convert)
ReplaceWithBnbLayers ==
    /\ ~bnbOut.done
    /\ bnbArgs # BnbNoArgs
    /\ bnbOut' = [done |-> TRUE,
                  model |-> replace_with_bnb_layers(bnbArgs.model,
                                bnbArgs.bnb_quantization_config,
                                bnbArgs.modules_to_not_convert)]
    /\ UNCHANGED <<bnbArgs, ckptVars, uidVars, srvVars, hfVars, stepVars, lifeVars>>

BnbNext == ReplaceWithBnbLayers

\* --------------------------------------- store_experts, step by step
\* the store cycles one behaviour runs
MaxCycles == 2

\* dir with node under name
WithEntry(dir, name, node) ==
    Dir([n \in DOMAIN dir.entries \cup {name} |->
           IF n = name THEN node ELSE dir.entries[n]])

\* the names store_experts writes into the expert's staged directory, in
\* the order of lines 72-75
StagedNames(timestamp) ==
    <<ModuleFile(timestamp), BackendFile(timestamp), ModuleLink, BackendLink>>

StagedNameSet ==
    {StagedNames(t)[i] : t \in 0..(MaxCycles - 1), i \in 1..4}

\* the expert's staged directory when the k-th operation of lines 68-75
\* raised: nothing for k = 0 (mkdir), else the directory with the files
\* written before it
StageExpertUpTo(expert_name, w, o, timestamp, k) ==
    IF k = 0 THEN NoNode
    ELSE LET full == StageExpert(expert_name, w, o, timestamp)
             names == StagedNames(timestamp)
         IN Dir([n \in {names[i] : i \in 1..(k - 1)} |-> full.entries[n]])

\* leaving `with TemporaryDirectory()` without removing the directory
TemporaryDirectory_exit_keep(dir) == dir

\* leaving `with TemporaryDirectory()`, by return or by exception
TemporaryDirectory_exit(dir) == NoNode

NotStoring ==
    [pc |-> "idle", timestamp |-> 0, cur |-> None, copied |-> {}, left |-> {},
     before |-> EmptyDir, raised |-> None, phase |-> None, cycles |-> 0]

StoreStep == [op |-> "store", expert |-> None, raised |-> None, nargs |-> 0]

\* store_experts is called by CheckpointSaver, whose constructor and loop end
\* with the first call that raises: lines 62-65
StoreBegin ==
    /\ storing.pc \in {"idle", "done"}
    /\ storing.cycles < MaxCycles
    /\ storing' = [pc |-> "staging", timestamp |-> storing.cycles, cur |-> None,
                   copied |-> {}, left |-> {}, before |-> ckpt, raised |-> None,
                   phase |-> None, cycles |-> storing.cycles + 1]
    /\ tmpdirname' = EmptyDir
    /\ last' = StoreStep
    /\ UNCHANGED <<weight, optstate, ckpt, stamps, stored, uidVars, srvVars, hfVars, bnbVars, lifeVars>>

\* one round of the loop of lines 66-75
StageOk(e) ==
    /\ storing.pc = "staging"
    /\ e \notin DOMAIN tmpdirname.entries
    /\ tmpdirname' = WithEntry(tmpdirname, e,
                     StageExpert(e, weight[e], optstate[e], storing.timestamp))
    /\ last' = StoreStep
    /\ UNCHANGED <<weight, optstate, ckpt, stamps, stored, storing, uidVars, srvVars, hfVars, bnbVars, lifeVars>>

\* a round of the loop in which the operation after the k-th raises
StageFails(e, k) ==
    /\ storing.pc = "staging"
    /\ e \notin DOMAIN tmpdirname.entries
    /\ LET partial == StageExpertUpTo(e, weight[e], optstate[e], storing.timestamp, k)
           staged == IF k = 0 THEN tmpdirname ELSE WithEntry(tmpdirname, e, partial)
       IN tmpdirname' = TemporaryDirectory_exit(staged)
    /\ storing' = [storing EXCEPT !.pc = "raised", !.raised = "Exception",
                                  !.phase = "staging"]
    /\ last' = StoreStep
    /\ UNCHANGED <<weight, optstate, ckpt, stamps, stored, uidVars, srvVars, hfVars, bnbVars, lifeVars>>

\* line 76: copy_tree(tmpdirname, str(checkpoint_dir)) is entered
CopyBegin ==
    /\ storing.pc = "staging"
    /\ DOMAIN tmpdirname.entries = ExpertNames
    /\ storing' = [storing EXCEPT !.pc = "copying"]
    /\ last' = StoreStep
    /\ UNCHANGED <<weight, optstate, ckpt, stamps, stored, tmpdirname, uidVars, srvVars, hfVars, bnbVars, lifeVars>>

\* copy_tree recurses into the staged directory of e: lines 33-34 of the
\* inner call
CopyEnterDir(e) ==
    /\ storing.pc = "copying"
    /\ storing.cur = None
    /\ e \notin storing.copied
    /\ ckpt' = IF e \in DOMAIN ckpt.entries THEN ckpt ELSE WithEntry(ckpt, e, EmptyDir)
    /\ storing' = [storing EXCEPT !.cur = e,
                                  !.left = DOMAIN tmpdirname.entries[e].entries]
    /\ last' = StoreStep
    /\ UNCHANGED <<weight, optstate, stamps, stored, tmpdirname, uidVars, srvVars, hfVars, bnbVars, lifeVars>>

\* copy2 of one file of the directory being copied: line 41; os.listdir
\* gives the names in any order
CopyFile(name) ==
    /\ storing.pc = "copying"
    /\ storing.cur # None
    /\ name \in storing.left
    /\ LET e == storing.cur
           done == storing.left = {name}
       IN /\ ckpt' = WithEntry(ckpt, e,
                        WithEntry(ckpt.entries[e], name,
                                  copy2(tmpdirname.entries[e].entries[name], tmpdirname)))
          /\ storing' = [storing EXCEPT
                           !.left = storing.left \ {name},
                           !.cur = IF done THEN None ELSE e,
                           !.copied = IF done THEN storing.copied \cup {e}
                                      ELSE storing.copied]
    /\ last' = StoreStep
    /\ UNCHANGED <<weight, optstate, stamps, stored, tmpdirname, uidVars, srvVars, hfVars, bnbVars, lifeVars>>

\* an operation of copy_tree raises
CopyFails ==
    /\ storing.pc = "copying"
    /\ tmpdirname' = TemporaryDirectory_exit(tmpdirname)
    /\ storing' = [storing EXCEPT !.pc = "raised", !.raised = "Exception",
                                  !.phase = "copy"]
    /\ last' = StoreStep
    /\ UNCHANGED <<weight, optstate, ckpt, stamps, stored, uidVars, srvVars, hfVars, bnbVars, lifeVars>>

\* copy_tree has returned; the with block is left
StoreReturns ==
    /\ storing.pc = "copying"
    /\ storing.cur = None
    /\ storing.copied = ExpertNames
    /\ tmpdirname' = TemporaryDirectory_exit(tmpdirname)
    /\ storing' = [storing EXCEPT !.pc = "done"]
    /\ last' = StoreStep
    /\ UNCHANGED <<weight, optstate, ckpt, stamps, stored, uidVars, srvVars, hfVars, bnbVars, lifeVars>>

\* the store cycle's steps, training that changes a weight, and a reader
StepNext ==
    \/ StoreBegin
    \/ \E e \in ExpertNames : StageOk(e)
    \/ \E e \in ExpertNames, k \in 0..4 : StageFails(e, k)
    \/ CopyBegin
    \/ \E e \in ExpertNames : CopyEnterDir(e)
    \/ \E name \in StagedNameSet : CopyFile(name)
    \/ CopyFails
    \/ StoreReturns
    \/ \E e \in ExpertNames, v \in WeightValues : SetWeight(e, v)
    \/ \E e \in ExpertNames : LoadExpert4(e)

\* ------------------------------------------------------ Server lifecycle
\* assert directory.exists(); assert directory.is_dir()
is_directory(directory) == directory.kind = "dir"

\* the module_backends of a server hosting the experts in names
RECURSIVE ModuleBackends(_)
ModuleBackends(names) ==
    IF names = {} THEN <<>>
    ELSE LET n == CHOOSE x \in names : TRUE
         IN <<[uid |-> n, weight |-> weight[n]]>> \o ModuleBackends(names \ {n})

\* run_in_background that never raises
run_in_background_no_raise(await_ready, waited) == "returned"

\* lines 267-269: how run_in_background ends when ready.wait gave waited
run_in_background_outcome(await_ready, waited) ==
    IF await_ready /\ ~waited THEN "TimeoutError" ELSE "returned"

\* a loop that stores after every wait, whatever the wait returned
CheckpointSaver_run_always(signalled) == "storing"

\* CheckpointSaver.run: `while not self.stop.wait(self.update_period)`
CheckpointSaver_run(signalled) == IF signalled THEN "ended" ELSE "storing"

\* a join that returns whether or not the thread is still running
Thread_join_at_once(state) == TRUE

\* a join that returns only for a thread whose run() returned normally
Thread_join_returned_only(state) == state = "ended"

\* threading.Thread.join() returns once the thread has ended, whether its
\* run() returned or raised
Thread_join(state) == state \in {"ended", "died"}

\* a shutdown that joins without signalling
Event_set_skipped(flag) == flag

\* threading.Event.set()
Event_set(flag) == TRUE

\* a run that calls shutdown() only after a normal return of runtime.run()
Server_run_else(raised) == IF raised THEN "none" ELSE "clear"

\* run, lines 257-260: try: self.runtime.run() / finally: self.shutdown();
\* where the server thread is in shutdown() once runtime.run() has ended
Server_run_finally(raised) == "clear"

\* a recv that returns without a message
pipe_recv_nowait(token) == TRUE

\* _server_runner, line 346: pipe.recv() returns once the parent has sent
pipe_recv(token) == token = "sent"

NoCallYet ==
    [checkpoint_dir |-> None, start |-> FALSE, experts |-> {}, await_ready |-> TRUE,
     timeout |-> None, outcome |-> None, waited |-> FALSE, runner |-> FALSE]
NotStarted == [main |-> "new", server |-> "not_started", saver |-> "not_started"]
NoShutdown == [main |-> "none", server |-> "none"]
NoComponents ==
    [handlers |-> "none", dht |-> "down", dht_thread |-> "none", runtime |-> "none",
     dht_stop |-> FALSE, saver_stop |-> FALSE, timeouts |-> 0,
     completed |-> FALSE, raised |-> None,
     order |-> <<>>, sd |-> [t \in {"main", "server"} |-> <<>>],
     sent |-> FALSE, token |-> "none"]

Threads == {"main", "server"}

\* Server(dht, module_backends, checkpoint_dir=..., start=...): lines 60-89
Construct ==
    /\ lpc.main = "new"
    /\ call # NoCallYet
    /\ LET dirnode == IF call.checkpoint_dir = "ckpt" THEN ckpt ELSE NoNode
           init == Server_init(ModuleBackends(call.experts), call.checkpoint_dir, ckpt)
       IN IF call.checkpoint_dir # None /\ ~is_directory(dirnode)
          THEN /\ lpc' = [lpc EXCEPT !.main = "failed"]
               /\ call' = [call EXCEPT !.outcome = "AssertionError"]
               /\ UNCHANGED <<server, ckpt, stamps, comp>>
          ELSE /\ server' = init.server
               /\ ckpt' = init.dir
               /\ stamps' = IF call.checkpoint_dir # None THEN <<0>> ELSE <<>>
               /\ comp' = [comp EXCEPT
                             !.handlers = "constructed",
                             !.runtime = "constructed",
                             !.dht_thread = IF call.experts # {} THEN "constructed"
                                            ELSE "none"]
               /\ lpc' = [lpc EXCEPT !.main = IF call.start THEN "start" ELSE "constructed"]
               /\ call' = call
    /\ UNCHANGED <<lsd, lifeRest>>

\* run_in_background: self.start(), by __init__ (start=True) or by the caller
RunInBackground ==
    /\ lpc.main \in {"start", "constructed"}
    /\ lpc.server = "not_started"
    /\ lpc' = [lpc EXCEPT !.main = IF call.await_ready THEN "waiting" ELSE "returned",
                          !.server = "dht"]
    /\ call' = [call EXCEPT !.outcome = IF call.await_ready THEN None
                                        ELSE run_in_background_outcome(FALSE, FALSE)]
    /\ UNCHANGED <<server, ckpt, stamps, lsd, comp, lifeRest>>

\* self.ready.wait(timeout) returns True: the event is set
WaitReturns ==
    /\ lpc.main = "waiting"
    /\ server.ready
    /\ LET r == run_in_background_outcome(call.await_ready, TRUE)
       IN /\ call' = [call EXCEPT !.outcome = r, !.waited = TRUE]
          /\ lpc' = [lpc EXCEPT !.main = IF r = "returned" THEN "returned" ELSE "raised"]
    /\ UNCHANGED <<server, ckpt, stamps, lsd, comp, lifeRest>>

\* self.ready.wait(timeout) returns False: timeout seconds have passed and
\* the event is not set
WaitTimesOut ==
    /\ lpc.main = "waiting"
    /\ call.timeout # None
    /\ ~server.ready
    /\ LET r == run_in_background_outcome(call.await_ready, FALSE)
       IN /\ call' = [call EXCEPT !.outcome = r, !.waited = FALSE]
          /\ lpc' = [lpc EXCEPT !.main = IF r = "returned" THEN "returned" ELSE "raised"]
    /\ UNCHANGED <<server, ckpt, stamps, lsd, comp, lifeRest>>

\* the caller calls server.shutdown()
MainShutdown ==
    /\ ~call.runner
    /\ lpc.main \in {"constructed", "returned", "raised"}
    /\ lsd.main = "none"
    /\ lsd' = [lsd EXCEPT !.main = "clear"]
    /\ lpc' = [lpc EXCEPT !.main = "shutdown"]
    /\ UNCHANGED <<server, ckpt, stamps, call, comp, lifeRest>>

\* shutdown: self.ready.clear()
SdClear(t) ==
    /\ lsd[t] = "clear"
    /\ server' = [server EXCEPT !.ready = FALSE]
    /\ lsd' = [lsd EXCEPT ![t] = "handlers"]
    /\ comp' = [comp EXCEPT !.sd[t] = Append(@, "clear")]
    /\ UNCHANGED <<ckpt, stamps, call, lpc, lifeRest>>

\* shutdown: handler.shutdown() for every connection handler
SdHandlers(t) ==
    /\ lsd[t] = "handlers"
    /\ comp' = [comp EXCEPT !.handlers = "shutdown", !.sd[t] = Append(@, "handlers")]
    /\ lsd' = [lsd EXCEPT ![t] = "dht_thread"]
    /\ UNCHANGED <<server, ckpt, stamps, call, lpc, lifeRest>>

\* what ends the thread t when its shutdown() raised
AfterRaise(t) == IF t = "main" THEN "failed" ELSE "ended"

\* shutdown: dht_handler_thread.stop.set() and the entry of join(), which
\* raises RuntimeError for a thread that was never started
SdDhtThread(t) ==
    /\ lsd[t] = "dht_thread"
    /\ IF server.module_backends = <<>>
       THEN /\ lsd' = [lsd EXCEPT ![t] = "saver"]
            /\ UNCHANGED <<comp, lpc>>
       ELSE IF comp.dht_thread = "constructed"
       THEN /\ comp' = [comp EXCEPT !.dht_stop = Event_set(@), !.raised = "RuntimeError",
                                     !.sd[t] = Append(@, "dht_thread.stop")]
            /\ lsd' = [lsd EXCEPT ![t] = "raised"]
            /\ lpc' = [lpc EXCEPT ![t] = AfterRaise(t)]
       ELSE /\ comp' = [comp EXCEPT !.dht_stop = Event_set(@),
                                     !.sd[t] = Append(@, "dht_thread.stop")]
            /\ lsd' = [lsd EXCEPT ![t] = "dht_join"]
            /\ lpc' = lpc
    /\ UNCHANGED <<server, ckpt, stamps, call, lifeRest>>

\* shutdown: dht_handler_thread.join() returns
SdDhtJoin(t) ==
    /\ lsd[t] = "dht_join"
    /\ Thread_join(comp.dht_thread)
    /\ lsd' = [lsd EXCEPT ![t] = "saver"]
    /\ comp' = [comp EXCEPT !.sd[t] = Append(@, "dht_thread.join")]
    /\ UNCHANGED <<server, ckpt, stamps, call, lpc, lifeRest>>

\* shutdown: checkpoint_saver.stop.set() and the entry of join()
SdSaver(t) ==
    /\ lsd[t] = "saver"
    /\ IF server.checkpoint_saver = None
       THEN /\ lsd' = [lsd EXCEPT ![t] = "dht"]
            /\ UNCHANGED <<comp, lpc>>
       ELSE IF lpc.saver = "not_started"
       THEN /\ comp' = [comp EXCEPT !.saver_stop = Event_set(@), !.raised = "RuntimeError",
                                     !.sd[t] = Append(@, "saver.stop")]
            /\ lsd' = [lsd EXCEPT ![t] = "raised"]
            /\ lpc' = [lpc EXCEPT ![t] = AfterRaise(t)]
       ELSE /\ comp' = [comp EXCEPT !.saver_stop = Event_set(@),
                                     !.sd[t] = Append(@, "saver.stop")]
            /\ lsd' = [lsd EXCEPT ![t] = "saver_join"]
            /\ lpc' = lpc
    /\ UNCHANGED <<server, ckpt, stamps, call, lifeRest>>

\* shutdown: checkpoint_saver.join() returns
SdSaverJoin(t) ==
    /\ lsd[t] = "saver_join"
    /\ Thread_join(lpc.saver)
    /\ lsd' = [lsd EXCEPT ![t] = "dht"]
    /\ comp' = [comp EXCEPT !.sd[t] = Append(@, "saver.join")]
    /\ UNCHANGED <<server, ckpt, stamps, call, lpc, lifeRest>>

\* shutdown: self.dht.shutdown()
SdDht(t) ==
    /\ lsd[t] = "dht"
    /\ comp' = [comp EXCEPT !.dht = "shutdown", !.sd[t] = Append(@, "dht")]
    /\ lsd' = [lsd EXCEPT ![t] = "runtime"]
    /\ UNCHANGED <<server, ckpt, stamps, call, lpc, lifeRest>>

\* shutdown: self.runtime.shutdown(), and the return of shutdown()
SdRuntime(t) ==
    /\ lsd[t] = "runtime"
    /\ server' = [server EXCEPT !.runtime_shutdown = TRUE]
    /\ comp' = [comp EXCEPT !.completed = TRUE, !.sd[t] = Append(@, "runtime")]
    /\ lsd' = [lsd EXCEPT ![t] = "done"]
    /\ lpc' = [lpc EXCEPT ![t] = IF t = "main" THEN "finished" ELSE "ended"]
    /\ UNCHANGED <<ckpt, stamps, call, lifeRest>>

\* run: if not self.dht.is_alive(): self.dht.run_in_background(await_ready=True)
RunDht ==
    /\ lpc.server = "dht"
    /\ comp' = [comp EXCEPT !.dht = "alive", !.order = Append(@, "dht")]
    /\ lpc' = [lpc EXCEPT !.server = "dht_thread"]
    /\ UNCHANGED <<server, ckpt, stamps, call, lsd, lifeRest>>

\* run: if self.module_backends: self.dht_handler_thread.start()
RunDhtThread ==
    /\ lpc.server = "dht_thread"
    /\ comp' = IF server.module_backends # <<>>
               THEN [comp EXCEPT !.dht_thread = "running",
                                 !.order = Append(@, "dht_thread")]
               ELSE comp
    /\ lpc' = [lpc EXCEPT !.server = "saver"]
    /\ UNCHANGED <<server, ckpt, stamps, call, lsd, lifeRest>>

\* run: if self.checkpoint_saver is not None: self.checkpoint_saver.start()
RunSaver ==
    /\ lpc.server = "saver"
    /\ lpc' = [lpc EXCEPT !.server = "handlers",
                          !.saver = IF server.checkpoint_saver # None THEN "waiting"
                                    ELSE @]
    /\ comp' = IF server.checkpoint_saver # None
               THEN [comp EXCEPT !.order = Append(@, "saver")]
               ELSE comp
    /\ UNCHANGED <<server, ckpt, stamps, call, lsd, lifeRest>>

\* run: handler.run_in_background() for every connection handler
RunHandlers ==
    /\ lpc.server = "handlers"
    /\ comp' = [comp EXCEPT !.handlers = "running", !.order = Append(@, "handlers")]
    /\ lpc' = [lpc EXCEPT !.server = "runtime"]
    /\ UNCHANGED <<server, ckpt, stamps, call, lsd, lifeRest>>

\* run: self.runtime.run() starts and sets the readiness event
RunRuntime ==
    /\ lpc.server = "runtime"
    /\ server' = [server EXCEPT !.ready = TRUE]
    /\ comp' = [comp EXCEPT !.runtime = "running", !.order = Append(@, "runtime")]
    /\ lpc' = [lpc EXCEPT !.server = "serving"]
    /\ UNCHANGED <<ckpt, stamps, call, lsd, lifeRest>>

\* run: self.runtime.run() returns after runtime.shutdown(); finally
RuntimeReturns ==
    /\ lpc.server = "serving"
    /\ server.runtime_shutdown
    /\ comp' = [comp EXCEPT !.runtime = "stopped"]
    /\ lsd' = [lsd EXCEPT !.server = Server_run_finally(FALSE)]
    /\ lpc' = [lpc EXCEPT !.server = IF lsd'.server = "none" THEN "ended" ELSE "finally"]
    /\ UNCHANGED <<server, ckpt, stamps, call, lifeRest>>

\* run: self.runtime.run() raises; finally
RuntimeRaises ==
    /\ lpc.server \in {"runtime", "serving"}
    /\ comp' = [comp EXCEPT !.runtime = "stopped", !.raised = "RuntimeFailure"]
    /\ lsd' = [lsd EXCEPT !.server = Server_run_finally(TRUE)]
    /\ lpc' = [lpc EXCEPT !.server = IF lsd'.server = "none" THEN "ended" ELSE "finally"]
    /\ UNCHANGED <<server, ckpt, stamps, call, lifeRest>>

\* run: a step before the try block raises (lines 245-255); the exception
\* leaves run and the thread ends
RunStepRaises ==
    /\ lpc.server \in {"dht", "dht_thread", "saver", "handlers"}
    /\ lpc' = [lpc EXCEPT !.server = "ended"]
    /\ comp' = [comp EXCEPT !.raised = "StartFailure"]
    /\ UNCHANGED <<server, ckpt, stamps, call, lsd, lifeRest>>

\* the DHT-announcement thread sees its stop event and ends
DhtThreadEnds ==
    /\ comp.dht_thread = "running"
    /\ comp.dht_stop
    /\ comp' = [comp EXCEPT !.dht_thread = "ended"]
    /\ UNCHANGED <<server, ckpt, stamps, call, lpc, lsd, lifeRest>>

\* CheckpointSaver.run: stop.wait(update_period) returns False after
\* update_period with the event not set
SaverWaitTimesOut ==
    /\ lpc.saver = "waiting"
    /\ ~comp.saver_stop
    /\ Len(stamps) < MaxStores
    /\ lpc' = [lpc EXCEPT !.saver = CheckpointSaver_run(FALSE)]
    /\ comp' = [comp EXCEPT !.timeouts = @ + 1]
    /\ UNCHANGED <<server, ckpt, stamps, call, lsd, lifeRest>>

\* CheckpointSaver.run: stop.wait(update_period) returns True, the event is set
SaverWaitStopped ==
    /\ lpc.saver = "waiting"
    /\ comp.saver_stop
    /\ lpc' = [lpc EXCEPT !.saver = CheckpointSaver_run(TRUE)]
    /\ UNCHANGED <<server, ckpt, stamps, call, lsd, comp, lifeRest>>

\* CheckpointSaver.run: store_experts(self.module_backends, self.checkpoint_dir)
SaverStore ==
    /\ lpc.saver = "storing"
    /\ ckpt' = store_experts(call.experts, weight, optstate, ckpt, Len(stamps))
    /\ stamps' = Append(stamps, Len(stamps))
    /\ lpc' = [lpc EXCEPT !.saver = "waiting"]
    /\ UNCHANGED <<server, call, lsd, comp, lifeRest>>

\* CheckpointSaver.run: store_experts raises, after the directories of the
\* experts in merged were copied into the checkpoint directory (none of
\* them when it raises while staging); nothing catches it, the thread ends
SaverStoreRaises(merged) ==
    /\ lpc.saver = "storing"
    /\ merged \subseteq call.experts
    /\ merged = {} \/ merged # call.experts
    /\ ckpt' = IF merged = {} THEN ckpt
               ELSE store_experts(merged, weight, optstate, ckpt, Len(stamps))
    /\ lpc' = [lpc EXCEPT !.saver = "died"]
    /\ UNCHANGED <<server, stamps, call, lsd, comp, lifeRest>>

\* _server_runner, lines 344-345: pipe.send((True, PeerInfo(...)))
RunnerSendOk ==
    /\ call.runner
    /\ lpc.main = "returned"
    /\ lpc' = [lpc EXCEPT !.main = "wait_token"]
    /\ comp' = [comp EXCEPT !.sent = TRUE]
    /\ UNCHANGED <<server, ckpt, stamps, call, lsd, lifeRest>>

\* background_server, line 324: the parent's pipe.send("SHUTDOWN")
ParentSendsToken ==
    /\ comp.sent
    /\ comp.token = "none"
    /\ comp' = [comp EXCEPT !.token = "sent"]
    /\ UNCHANGED <<server, ckpt, stamps, call, lpc, lsd, lifeRest>>

\* _server_runner, lines 346-350: pipe.recv() returns; finally: server.shutdown()
RunnerRecvToken ==
    /\ lpc.main = "wait_token"
    /\ pipe_recv(comp.token)
    /\ comp' = [comp EXCEPT !.token = IF @ = "sent" THEN "received" ELSE @]
    /\ lpc' = [lpc EXCEPT !.main = "shutdown"]
    /\ lsd' = [lsd EXCEPT !.main = "clear"]
    /\ UNCHANGED <<server, ckpt, stamps, call, lifeRest>>

\* _server_runner, line 351: server.join() returns; the child exits
RunnerJoin ==
    /\ call.runner
    /\ lpc.main = "finished"
    /\ Thread_join(lpc.server)
    /\ lpc' = [lpc EXCEPT !.main = "exited"]
    /\ UNCHANGED <<server, ckpt, stamps, call, lsd, comp, lifeRest>>

LifeNext ==
    \/ Construct
    \/ RunInBackground
    \/ WaitReturns
    \/ WaitTimesOut
    \/ MainShutdown
    \/ \E t \in Threads : SdClear(t)
    \/ \E t \in Threads : SdHandlers(t)
    \/ \E t \in Threads : SdDhtThread(t)
    \/ \E t \in Threads : SdDhtJoin(t)
    \/ \E t \in Threads : SdSaver(t)
    \/ \E t \in Threads : SdSaverJoin(t)
    \/ \E t \in Threads : SdDht(t)
    \/ \E t \in Threads : SdRuntime(t)
    \/ RunDht
    \/ RunDhtThread
    \/ RunSaver
    \/ RunHandlers
    \/ RunRuntime
    \/ RuntimeReturns
    \/ RuntimeRaises
    \/ DhtThreadEnds
    \/ SaverWaitTimesOut
    \/ SaverWaitStopped
    \/ SaverStore
    \/ \E merged \in SUBSET ExpertNames : SaverStoreRaises(merged)
    \/ RunStepRaises
    \/ RunnerSendOk
    \/ ParentSendsToken
    \/ RunnerRecvToken
    \/ RunnerJoin

vars == <<weight, optstate, ckpt, stamps, stored, last, uidArgs, uidResult,
          peers, declared,
          cfg, ppc, cpc, tpc, toParent, toChild, loads, server, h,
          hfArgs, hfExpert, bnbArgs, bnbOut, tmpdirname, storing,
          call, lpc, lsd, comp>>

\* the experts of the test fixture with any weights, an empty checkpoint
\* directory; no _generate_uids call and no server
CkptInit ==
    /\ weight \in [ExpertNames -> WeightValues]
    /\ optstate = [e \in ExpertNames |-> 0]
    /\ ckpt = EmptyDir
    /\ stamps = <<>>
    /\ stored = [w |-> weight, o |-> optstate]
    /\ last = NoCall
    /\ uidArgs = [num_experts |-> 0, num_layers |-> 0, layers_start |-> 0, dht |-> NoDHT]
    /\ uidResult = UidNotRun
    /\ peers = NoPeers
    /\ declared = {}
    /\ cfg = [checkpoint_dir |-> None, hugginface_rep |-> None, num_experts |-> 1,
              num_layers |-> 1, layers_start |-> 0, registered |-> {}]
    /\ ppc = "start"
    /\ cpc = "not_started"
    /\ tpc = "not_started"
    /\ toParent = <<>>
    /\ toChild = <<>>
    /\ loads = <<>>
    /\ server = NoServer
    /\ h = NoHistory
    /\ hfArgs = HfNoArgs
    /\ hfExpert = FreshExpert
    /\ bnbArgs = BnbNoArgs
    /\ bnbOut = BnbNotRun
    /\ tmpdirname = NoNode
    /\ storing = NotStoring
    /\ call = NoCallYet
    /\ lpc = NotStarted
    /\ lsd = NoShutdown
    /\ comp = NoComponents

\* any arguments of _generate_uids; nothing stored, no server
UidInit ==
    /\ uidArgs \in [num_experts : 0..MaxExperts,
                     num_layers : 0..MaxLayers,
                     layers_start : 0..MaxLayers,
                     dht : {NoDHT} \cup {DHT(r) : r \in SUBSET OtherUids}]
    /\ uidResult = UidNotRun
    /\ peers = NoPeers
    /\ declared = {}
    /\ weight = [e \in ExpertNames |-> 0]
    /\ optstate = [e \in ExpertNames |-> 0]
    /\ ckpt = EmptyDir
    /\ stamps = <<>>
    /\ stored = [w |-> weight, o |-> optstate]
    /\ last = NoCall
    /\ cfg = [checkpoint_dir |-> None, hugginface_rep |-> None, num_experts |-> 1,
              num_layers |-> 1, layers_start |-> 0, registered |-> {}]
    /\ ppc = "start"
    /\ cpc = "not_started"
    /\ tpc = "not_started"
    /\ toParent = <<>>
    /\ toChild = <<>>
    /\ loads = <<>>
    /\ server = NoServer
    /\ h = NoHistory
    /\ hfArgs = HfNoArgs
    /\ hfExpert = FreshExpert
    /\ bnbArgs = BnbNoArgs
    /\ bnbOut = BnbNotRun
    /\ tmpdirname = NoNode
    /\ storing = NotStoring
    /\ call = NoCallYet
    /\ lpc = NotStarted
    /\ lsd = NoShutdown
    /\ comp = NoComponents

\* any arguments of background_server; nothing stored, no _generate_uids call
SrvInit ==
    /\ cfg \in [checkpoint_dir : {None, "ckpt"},
                 hugginface_rep : {None, "repo"},
                 num_experts : {1, 2},
                 num_layers : {1},
                 layers_start : {0},
                 registered : {{}, {"ffn.0.1"}}]
    /\ ppc = "start"
    /\ cpc = "not_started"
    /\ tpc = "not_started"
    /\ toParent = <<>>
    /\ toChild = <<>>
    /\ loads = <<>>
    /\ server = NoServer
    /\ h = NoHistory
    /\ weight = [e \in ExpertNames |-> 0]
    /\ optstate = [e \in ExpertNames |-> 0]
    /\ ckpt = EmptyDir
    /\ stamps = <<>>
    /\ stored = [w |-> weight, o |-> optstate]
    /\ last = NoCall
    /\ uidArgs = [num_experts |-> 0, num_layers |-> 0, layers_start |-> 0, dht |-> NoDHT]
    /\ uidResult = UidNotRun
    /\ peers = NoPeers
    /\ declared = {}
    /\ hfArgs = HfNoArgs
    /\ hfExpert = FreshExpert
    /\ bnbArgs = BnbNoArgs
    /\ bnbOut = BnbNotRun
    /\ tmpdirname = NoNode
    /\ storing = NotStoring
    /\ call = NoCallYet
    /\ lpc = NotStarted
    /\ lsd = NoShutdown
    /\ comp = NoComponents

\* any indices and any repository; nothing else has run
HfInit ==
    /\ hfArgs \in [layer_id : HfLayerIds, expert_id : HfExpertIds,
                    repo : {Repo(m) : m \in [ParamNames -> ShardNames]}]
    /\ hfExpert = FreshExpert
    /\ bnbArgs = BnbNoArgs
    /\ bnbOut = BnbNotRun
    /\ tmpdirname = NoNode
    /\ storing = NotStoring
    /\ call = NoCallYet
    /\ lpc = NotStarted
    /\ lsd = NoShutdown
    /\ comp = NoComponents
    /\ weight = [e \in ExpertNames |-> 0]
    /\ optstate = [e \in ExpertNames |-> 0]
    /\ ckpt = EmptyDir
    /\ stamps = <<>>
    /\ stored = [w |-> weight, o |-> optstate]
    /\ last = NoCall
    /\ uidArgs = [num_experts |-> 0, num_layers |-> 0, layers_start |-> 0, dht |-> NoDHT]
    /\ uidResult = UidNotRun
    /\ peers = NoPeers
    /\ declared = {}
    /\ cfg = [checkpoint_dir |-> None, hugginface_rep |-> None, num_experts |-> 1,
              num_layers |-> 1, layers_start |-> 0, registered |-> {}]
    /\ ppc = "start"
    /\ cpc = "not_started"
    /\ tpc = "not_started"
    /\ toParent = <<>>
    /\ toChild = <<>>
    /\ loads = <<>>
    /\ server = NoServer
    /\ h = NoHistory

\* any model, either configuration, any exclusion list
BnbInit ==
    /\ bnbArgs \in [model : {ModuleAt(<<>>, S, B) : S \in LinearSets, B \in {{}, LinearPaths}},
                     bnb_quantization_config : {BASE_QUANT_CONFIG, Config8bit},
                     modules_to_not_convert : ExclusionLists]
    /\ bnbOut = BnbNotRun
    /\ tmpdirname = NoNode
    /\ storing = NotStoring
    /\ call = NoCallYet
    /\ lpc = NotStarted
    /\ lsd = NoShutdown
    /\ comp = NoComponents
    /\ hfArgs = HfNoArgs
    /\ hfExpert = FreshExpert
    /\ weight = [e \in ExpertNames |-> 0]
    /\ optstate = [e \in ExpertNames |-> 0]
    /\ ckpt = EmptyDir
    /\ stamps = <<>>
    /\ stored = [w |-> weight, o |-> optstate]
    /\ last = NoCall
    /\ uidArgs = [num_experts |-> 0, num_layers |-> 0, layers_start |-> 0, dht |-> NoDHT]
    /\ uidResult = UidNotRun
    /\ peers = NoPeers
    /\ declared = {}
    /\ cfg = [checkpoint_dir |-> None, hugginface_rep |-> None, num_experts |-> 1,
              num_layers |-> 1, layers_start |-> 0, registered |-> {}]
    /\ ppc = "start"
    /\ cpc = "not_started"
    /\ tpc = "not_started"
    /\ toParent = <<>>
    /\ toChild = <<>>
    /\ loads = <<>>
    /\ server = NoServer
    /\ h = NoHistory

\* the experts with weight 0, an empty checkpoint directory, no store cycle
StepInit ==
    /\ tmpdirname = NoNode
    /\ storing = NotStoring
    /\ call = NoCallYet
    /\ lpc = NotStarted
    /\ lsd = NoShutdown
    /\ comp = NoComponents
    /\ weight = [e \in ExpertNames |-> 0]
    /\ optstate = [e \in ExpertNames |-> 0]
    /\ ckpt = EmptyDir
    /\ stamps = <<>>
    /\ stored = [w |-> weight, o |-> optstate]
    /\ last = NoCall
    /\ bnbArgs = BnbNoArgs
    /\ bnbOut = BnbNotRun
    /\ hfArgs = HfNoArgs
    /\ hfExpert = FreshExpert
    /\ uidArgs = [num_experts |-> 0, num_layers |-> 0, layers_start |-> 0, dht |-> NoDHT]
    /\ uidResult = UidNotRun
    /\ peers = NoPeers
    /\ declared = {}
    /\ cfg = [checkpoint_dir |-> None, hugginface_rep |-> None, num_experts |-> 1,
              num_layers |-> 1, layers_start |-> 0, registered |-> {}]
    /\ ppc = "start"
    /\ cpc = "not_started"
    /\ tpc = "not_started"
    /\ toParent = <<>>
    /\ toChild = <<>>
    /\ loads = <<>>
    /\ server = NoServer
    /\ h = NoHistory

\* any arguments of the constructor and of run_in_background (start=True
\* calls it with its defaults); an existing, empty checkpoint directory
LifeInit ==
    /\ call \in {c \in [checkpoint_dir : {None, "ckpt", "nowhere"},
                         start : BOOLEAN,
                         experts : {ExpertNames, {}},
                         await_ready : BOOLEAN,
                         timeout : {None, "t"},
                         outcome : {None},
                         waited : {FALSE},
                         runner : BOOLEAN] :
                   /\ c.start => (c.await_ready /\ c.timeout = None)
                   /\ c.runner => (c.start /\ c.checkpoint_dir = None)}
    /\ lpc = NotStarted
    /\ lsd = NoShutdown
    /\ comp = NoComponents
    /\ server = NoServer
    /\ ckpt = EmptyDir
    /\ stamps = <<>>
    /\ weight = [e \in ExpertNames |-> 0]
    /\ optstate = [e \in ExpertNames |-> 0]
    /\ stored = [w |-> weight, o |-> optstate]
    /\ last = NoCall
    /\ tmpdirname = NoNode
    /\ storing = NotStoring
    /\ bnbArgs = BnbNoArgs
    /\ bnbOut = BnbNotRun
    /\ hfArgs = HfNoArgs
    /\ hfExpert = FreshExpert
    /\ uidArgs = [num_experts |-> 0, num_layers |-> 0, layers_start |-> 0, dht |-> NoDHT]
    /\ uidResult = UidNotRun
    /\ peers = NoPeers
    /\ declared = {}
    /\ cfg = [checkpoint_dir |-> None, hugginface_rep |-> None, num_experts |-> 1,
              num_layers |-> 1, layers_start |-> 0, registered |-> {}]
    /\ ppc = "start"
    /\ cpc = "not_started"
    /\ tpc = "not_started"
    /\ toParent = <<>>
    /\ toChild = <<>>
    /\ loads = <<>>
    /\ h = NoHistory

\* two servers about to run Server.create with any arguments, on a DHT where
\* another peer may have declared an expert
PeersInit ==
    /\ peers \in [Peers -> [pc : {"create"}, num_experts : 1..MaxExperts,
                            num_layers : 1..MaxLayers, layers_start : 0..1,
                            uids : {<<>>}, seen : {{}}, raised : {None}]]
    /\ declared \in {{}, {[uid |-> "ffn.1.2", peer |-> "other"]}}
    /\ uidArgs = [num_experts |-> 0, num_layers |-> 0, layers_start |-> 0, dht |-> NoDHT]
    /\ uidResult = UidNotRun
    /\ weight = [e \in ExpertNames |-> 0]
    /\ optstate = [e \in ExpertNames |-> 0]
    /\ ckpt = EmptyDir
    /\ stamps = <<>>
    /\ stored = [w |-> weight, o |-> optstate]
    /\ last = NoCall
    /\ cfg = [checkpoint_dir |-> None, hugginface_rep |-> None, num_experts |-> 1,
              num_layers |-> 1, layers_start |-> 0, registered |-> {}]
    /\ ppc = "start"
    /\ cpc = "not_started"
    /\ tpc = "not_started"
    /\ toParent = <<>>
    /\ toChild = <<>>
    /\ loads = <<>>
    /\ server = NoServer
    /\ h = NoHistory
    /\ hfArgs = HfNoArgs
    /\ hfExpert = FreshExpert
    /\ bnbArgs = BnbNoArgs
    /\ bnbOut = BnbNotRun
    /\ tmpdirname = NoNode
    /\ storing = NotStoring
    /\ call = NoCallYet
    /\ lpc = NotStarted
    /\ lsd = NoShutdown
    /\ comp = NoComponents

SpecCkpt == CkptInit /\ [][CkptNext]_vars

SpecUids == UidInit /\ [][UidNext]_vars

SpecSrv == SrvInit /\ [][SrvNext]_vars

\* the operating system schedules every process and thread that can step
FairSpecSrv == SpecSrv /\ WF_vars(SrvNext)

SpecHf == HfInit /\ [][HfNext]_vars

SpecBnb == BnbInit /\ [][BnbNext]_vars

SpecStep == StepInit /\ [][StepNext]_vars

SpecLife == LifeInit /\ [][LifeNext]_vars

\* the steps of shutdown() made by thread t
ShutdownStep(t) ==
    \/ SdClear(t) \/ SdHandlers(t) \/ SdDhtThread(t) \/ SdDhtJoin(t)
    \/ SdSaver(t) \/ SdSaverJoin(t) \/ SdDht(t) \/ SdRuntime(t)

\* the steps the caller's thread takes by itself (a direct caller decides
\* whether to call shutdown, a wait may or may not time out)
MainStep ==
    \/ Construct \/ RunInBackground \/ WaitReturns
    \/ RunnerSendOk \/ RunnerRecvToken \/ RunnerJoin
    \/ ShutdownStep("main")

\* the steps of Server.run that do not fail
ServerStep ==
    \/ RunDht \/ RunDhtThread \/ RunSaver \/ RunHandlers \/ RunRuntime
    \/ RuntimeReturns
    \/ ShutdownStep("server")

\* the steps of the checkpoint task other than a wait timing out
SaverStep == SaverWaitStopped \/ SaverStore

\* every thread that can take a step is scheduled; failures, timeouts and the
\* caller's and the parent's decisions are not forced
FairSpecLife ==
    /\ SpecLife
    /\ WF_vars(MainStep)
    /\ WF_vars(ServerStep)
    /\ WF_vars(DhtThreadEnds)
    /\ WF_vars(SaverStep)

SpecPeers == PeersInit /\ [][PeersNext]_vars

\* ---------------------------------------------------- uid properties
\* the pairs (layer_id, expert_id) the call is to cover
UidPairs ==
    {<<l, e>> : l \in uidArgs.layers_start..(uidArgs.num_layers - 1),
                e \in 0..(uidArgs.num_experts - 1)}
Rendered(l, e) == "ffn." \o ToString(l) \o "." \o ToString(e)
UidConflict ==
    /\ uidArgs.dht.given
    /\ \E p \in UidPairs : Rendered(p[1], p[2]) \in uidArgs.dht.registered

C5_CheckpointingEnabled ==
    (h.create = "returned" /\ cfg.checkpoint_dir # None)
        => /\ server.checkpoint_saver # None
           /\ \A i \in 1..Len(server.module_backends) :
                Resolve(Lookup(ckpt, <<server.module_backends[i].uid, ModuleLink>>),
                        NoNode).kind = "file"

CreateRan == cpc \notin {"not_started", "create"}
NameConflict ==
    \E e \in 0..(cfg.num_experts - 1) : ("ffn.0." \o ToString(e)) \in cfg.registered

\* C6: per expert built by create: with checkpoint_dir and no hugginface_rep
\* the one call is load_expert with the uid; with hugginface_rep and no
\* checkpoint_dir the one call is load_expert_from_hf with expert_id and
\* layer_id; with both or neither there is no call, nothing is raised and the
\* weights stay as initialised.
C6_RestoreTable ==
    CreateRan =>
        /\ ~NameConflict => Len(loads) >= 1
        /\ \A i \in 1..Len(loads) :
             LET b == loads[i]
                 ck == cfg.checkpoint_dir # None
                 hf == cfg.hugginface_rep # None
             IN /\ b.uid = "ffn.0." \o ToString(i - 1)
                /\ IF ck /\ ~hf
                   THEN /\ Len(b.calls) = 1
                        /\ b.calls[1].fn = "load_expert"
                        /\ b.calls[1].args = <<"expert", b.uid, cfg.checkpoint_dir>>
                   ELSE IF hf /\ ~ck
                   THEN /\ Len(b.calls) = 1
                        /\ b.calls[1].fn = "load_expert_from_hf"
                        /\ b.calls[1].args = <<"expert", cfg.hugginface_rep, i - 1, 0>>
                   ELSE /\ b.calls = <<>>
                        /\ b.raised = None
                        /\ b.weight = FreshWeight
                        /\ Len(loads) = cfg.num_experts

C6_Witness ==
    /\ CreateRan
    /\ cfg.checkpoint_dir = None
    /\ cfg.hugginface_rep # None
    /\ Len(loads) = 2
    /\ loads[2].calls[1].args = <<"expert", "repo", 1, 0>>
    /\ loads[2].weight = HfWeight

\* C8: the parent acts on one message; it yields the peer info exactly when
\* create returned in the child and raises the startup error exactly when
\* create raised; the child sends one message, of the kind of the outcome.
C8_OneMessage ==
    /\ Len(h.sent) <= 1
    /\ Len(h.got) <= 1
    /\ ppc \in {"yielded", "join", "done"} => Len(h.got) = 1
    /\ h.create = "pending" => h.sent = <<>>
    /\ cpc \in {"wait_shutdown", "shutdown", "join", "exited"} => Len(h.sent) = 1
    /\ \A i \in 1..Len(h.sent) :
         IF h.create = "returned"
         THEN h.sent[i].ok /\ h.sent[i].data = PeerInfo
         ELSE ~h.sent[i].ok /\ h.sent[i].data = h.error
    /\ \A i \in 1..Len(h.got) : h.got[i] = h.sent[i]
    /\ h.yielded <=> (Len(h.got) = 1 /\ h.create = "returned")
    /\ h.parentRaised = "RuntimeError"
            <=> (Len(h.got) = 1 /\ h.create = "raised")
    /\ ~(h.yielded /\ h.parentRaised = "RuntimeError")

C8_Witness ==
    /\ ppc = "done"
    /\ h.parentRaised = "RuntimeError"
    /\ h.got = <<[ok |-> FALSE, data |-> "NameError"]>>

\* C9: every startup failure in the child, in create or in the server
\* thread before the runtime is ready, leads to the parent raising the
\* startup error.
C9_FailureReported ==
    (h.create = "raised" \/ h.threadFailed)
        ~> (ppc = "done" /\ h.parentRaised = "RuntimeError")

\* C10: once the caller's block has ended, normally or by an exception, the
\* shutdown token has been sent before the parent waits, so a child that is
\* killed after a successful start had been asked to shut down.
C10_TokenBeforeWait ==
    /\ (h.yielded /\ ppc \in {"join", "done"}) => h.token
    /\ (h.yielded /\ h.killed) => h.token

\* ------------------------------------------------- checkpoint properties
NumStores == Len(stamps)
StampSet == {stamps[i] : i \in 1..Len(stamps)}
DistinctStamps == Cardinality(StampSet) = Len(stamps)
LastStamp == stamps[Len(stamps)]

\* os.listdir of an expert's checkpoint subdirectory
Listing(e) ==
    LET d == Lookup(ckpt, <<e>>)
    IN IF d.kind = "dir" THEN DOMAIN d.entries ELSE {}

\* what reading a file of the checkpoint directory yields, now that the
\* staging directory is gone
ReadFile(e, name) == Resolve(Lookup(ckpt, <<e, name>>), NoNode)

\* C1: after one or more store_experts calls, a load_expert call for an expert
\* leaves it with the weights it had at the most recent store_experts call.
C1_RoundTrip ==
    (last.op = "load" /\ NumStores >= 1)
        => weight[last.expert] = stored.w[last.expert]

\* C2: after N >= 1 store_experts calls with distinct timestamps the expert's
\* checkpoint subdirectory exists and holds exactly N + 1 entries.
C2_EntryCount ==
    (NumStores >= 1 /\ DistinctStamps)
        => \A e \in ExpertNames :
             /\ Lookup(ckpt, <<e>>).kind = "dir"
             /\ Cardinality(Listing(e)) = NumStores + 1

C4_StableNames ==
    NumStores >= 1
        => \A e \in ExpertNames :
             /\ ReadFile(e, ModuleLink).kind = "file"
             /\ ReadFile(e, BackendLink).kind = "file"
             /\ ReadFile(e, ModuleLink) = ReadFile(e, ModuleFile(LastStamp))
             /\ ReadFile(e, BackendLink) = ReadFile(e, BackendFile(LastStamp))
             /\ ReadFile(e, ModuleLink).data
                  = save_safetensor(state_dict(stored.w[e], stored.o[e])[1])
             /\ ReadFile(e, BackendLink).data
                  = save_safetensor(state_dict(stored.w[e], stored.o[e])[2])
             /\ \A t \in StampSet : t <= LastStamp

C4_Witness ==
    /\ last.op = "store"
    /\ NumStores >= 2
    /\ \E e \in ExpertNames :
         /\ ReadFile(e, ModuleFile(stamps[1])) # ReadFile(e, ModuleLink)
         /\ ReadFile(e, BackendFile(stamps[1])) # ReadFile(e, BackendLink)

\* C14: a load_expert call for an expert name that has no checkpoint
\* subdirectory, or no module.safetensors in it, raises nothing, leaves the
\* expert's weights as they were and leaves the checkpoint directory as it was
C14_MissingCheckpoint ==
    [][(/\ last'.op = "load"
        /\ ReadFile(last'.expert, ModuleLink).kind # "file")
       => (/\ last'.raised = None
           /\ weight' = weight
           /\ ckpt' = ckpt)]_vars

\* --------------------------------------------------- hf_loader properties
HfSource(l, e, w) ==
    "model.layers." \o ToString(l) \o ".block_sparse_moe.experts."
      \o ToString(e) \o "." \o w \o ".weight"
HfTarget(w) == "block." \o w \o ".weight"
HfWeightMap == load_weights_map_from_json(hfArgs.repo)

\* C17: for every layer_id and expert_id mixtral_rules has exactly the three
\* entries model.layers.<layer_id>.block_sparse_moe.experts.<expert_id>.wK.weight
\* -> block.wK.weight, and after _load_weights_from_hf the expert holds exactly
\* the keys block.w1.weight, block.w2.weight, block.w3.weight, each with the
\* tensor stored under the source name in the shard the weight map names
C17_MixtralLoad ==
    LET l == hfArgs.layer_id
        e == hfArgs.expert_id
        rule == mixtral_rules(l, e)
    IN /\ DOMAIN rule = {HfSource(l, e, w) : w \in HfWs}
       /\ Cardinality(DOMAIN rule) = 3
       /\ \A w \in HfWs : rule[HfSource(l, e, w)] = HfTarget(w)
       /\ hfExpert.loaded =>
            /\ DOMAIN hfExpert.state = {HfTarget(w) : w \in HfWs}
            /\ \A w \in HfWs :
                 hfExpert.state[HfTarget(w)] =
                   Tensor(HfWeightMap[HfSource(l, e, w)], HfSource(l, e, w))

\* a load that took its three tensors from more than one shard
C17_Witness ==
    /\ hfExpert.loaded
    /\ hfArgs.layer_id = 2
    /\ hfArgs.expert_id = 5
    /\ Cardinality({hfExpert.state[k].shard : k \in DOMAIN hfExpert.state}) = 2

\* -------------------------------------------- bnb_quantization properties
RECURSIVE At(_, _)
At(model, path) ==
    IF path = <<>> THEN model
    ELSE IF model.kind = "none" \/ Head(path) \notin DOMAIN model.children THEN NoNode
    ELSE At(model.children[Head(path)], Tail(path))

Quantized(before, after) ==
    /\ after.kind \in {"Linear4bit", "Linear8bitLt"}
    /\ after.in_features = before.in_features
    /\ after.out_features = before.out_features
    /\ after.bias = before.bias
    /\ after.requires_grad = FALSE

IsLinearAt(path) == At(bnbArgs.model, path).kind = "Linear"

\* C15: with the exclusion list ["lm_head"], in a model with a top-level
\* Linear lm_head, that layer stays as it is, every other Linear at any depth
\* becomes a quantized layer with
\* the same feature counts and bias presence and requires_grad false, and
\* every other module stays in place under its name
C15_LmHeadOnly ==
    (/\ bnbOut.done
     /\ bnbArgs.modules_to_not_convert = List(<<S_lm_head>>)
     /\ IsLinearAt(<<S_lm_head>>)) =>
        /\ At(bnbOut.model, <<S_lm_head>>) = At(bnbArgs.model, <<S_lm_head>>)
        /\ \A path \in LinearPaths \ {<<S_lm_head>>} :
             IsLinearAt(path) =>
               Quantized(At(bnbArgs.model, path), At(bnbOut.model, path))
        /\ \A path \in OtherPaths \cup {<<S_block>>, <<S_xlm_head>>} :
             At(bnbOut.model, path).kind = At(bnbArgs.model, path).kind

\* the dotted path equals an entry, or an entry followed by '.' begins it
ExcludedByPath(path, list) ==
    \E i \in 1..Len(list) :
        \/ Join(path) = list[i]
        \/ IsPrefix(list[i] \o Dot, Join(path))

\* C16: a Linear is left unconverted if and only if its dotted path equals an
\* exclusion entry or begins with an entry followed by '.'
C16_PathExclusion ==
    bnbOut.done =>
        \A path \in LinearPaths :
            IsLinearAt(path) =>
              (At(bnbOut.model, path).kind = "Linear"
                 <=> ExcludedByPath(path, bnbArgs.modules_to_not_convert.list))

\* ------------------------------------------- step-by-step store properties
NamesOf(dir, e) ==
    IF e \in DOMAIN dir.entries THEN DOMAIN dir.entries[e].entries ELSE {}

\* the timestamps of the module snapshots the directory of e holds
StampsOf(dir, e) == {t \in 0..MaxCycles : ModuleFile(t) \in NamesOf(dir, e)}
Newest(dir, e) == CHOOSE t \in StampsOf(dir, e) : \A u \in StampsOf(dir, e) : u <= t

\* a checkpoint directory that is partially updated: the experts do not hold
\* the same snapshots, or an expert's stable name is not its newest snapshot
PartiallyUpdated(dir) ==
    \/ \E e1 \in ExpertNames, e2 \in ExpertNames : NamesOf(dir, e1) # NamesOf(dir, e2)
    \/ \E e \in ExpertNames :
         /\ StampsOf(dir, e) # {}
         /\ \/ ModuleLink \notin NamesOf(dir, e)
            \/ Resolve(Lookup(dir, <<e, ModuleLink>>), NoNode)
                 # Lookup(dir, <<e, ModuleFile(Newest(dir, e))>>)

\* C18: a load_expert that runs while store_experts is copying never finds a
\* partially updated checkpoint directory
C18_AtomicMerge ==
    (last.op = "load" /\ storing.pc = "copying") => ~PartiallyUpdated(ckpt)

\* C19: when store_experts raised while staging an expert, the checkpoint
\* directory is as it was before the call, the error reached the caller and
\* the staging directory is gone
C19_StagingFailure ==
    (storing.pc = "raised" /\ storing.phase = "staging") =>
        /\ ckpt = storing.before
        /\ storing.raised # None
        /\ tmpdirname = NoNode

\* a second store cycle that fails in staging over a non-empty directory
C19_Witness ==
    /\ storing.pc = "raised"
    /\ storing.phase = "staging"
    /\ storing.cycles = 2
    /\ ckpt # EmptyDir

\* --------------------------------------------------- lifecycle properties
\* a component of the server has been started
AnyStarted ==
    \/ comp.runtime \in {"running", "stopped"}
    \/ comp.dht_thread \in {"running", "ended"}
    \/ lpc.saver # "not_started"
    \/ comp.handlers = "running"

\* C11: run_in_background(await_ready=True, timeout=t) returns normally only
\* when the readiness event is set, and raises TimeoutError only when t has
\* passed with the event unset; a wait that timed out always raises
C11_AwaitReady ==
    [][(lpc.main = "waiting" /\ lpc'.main # "waiting") =>
         /\ lpc'.main = "returned" <=> server.ready
         /\ lpc'.main = "raised" <=>
              (call.timeout # None /\ ~server.ready /\ call'.outcome = "TimeoutError")
         /\ lpc'.main \in {"returned", "raised"}]_vars

\* a call with a finite timeout that returned, and the server is ready
C11_Witness ==
    /\ lpc.main = "returned"
    /\ call.await_ready
    /\ call.timeout # None
    /\ call.waited
    /\ server.ready

\* C12: once a shutdown() call has completed, the readiness event is clear,
\* and stays clear
C12_ReadyStaysCleared == comp.completed => ~server.ready

\* C13: a Server constructed with a checkpoint directory has completed one
\* store cycle covering every hosted expert, and exactly one as long as no
\* runtime, DHT-announcement task, checkpoint loop or handler has started
C13_StoreAtConstruction ==
    (server.made /\ server.checkpoint_saver # None) =>
        /\ Len(stamps) >= 1
        /\ ~AnyStarted => Len(stamps) = 1
        /\ \A e \in call.experts :
             /\ {ModuleFile(0), BackendFile(0), ModuleLink, BackendLink}
                  \subseteq NamesOf(ckpt, e)
             /\ Lookup(ckpt, <<e, ModuleFile(0)>>)
                  = File(save_safetensor(state_dict(weight[e], optstate[e])[1]))

\* constructed with a checkpoint directory and two experts, nothing started
C13_Witness ==
    /\ server.made
    /\ server.checkpoint_saver # None
    /\ call.experts = ExpertNames
    /\ ~AnyStarted
    /\ Len(stamps) = 1

\* C20: the loop starts a store cycle only when a wait has timed out with the
\* stop event unset, never once the event is set, and it ends without a
\* store; the store cycles (those completed and the one that is running or
\* has raised) are the one of the constructor and one per timed-out wait
C20_SaverLoop ==
    /\ []((server.made /\ server.checkpoint_saver # None) =>
            /\ Len(stamps) + (IF lpc.saver \in {"storing", "died"} THEN 1 ELSE 0)
                 = 1 + comp.timeouts
            /\ lpc.saver = "ended" => comp.saver_stop)
    /\ [][(lpc'.saver = "storing" /\ lpc.saver # "storing") =>
            /\ ~comp.saver_stop
            /\ comp'.timeouts = comp.timeouts + 1]_vars
    /\ [][(lpc'.saver = "ended" /\ lpc.saver # "ended") =>
            stamps' = stamps]_vars

\* the loop has ended after two periodic store cycles
C20_Witness ==
    /\ lpc.saver = "ended"
    /\ comp.timeouts = 2
    /\ Len(stamps) = 3

\* ------------------------------------------------ two-server properties
\* the uids peer p asks for: the pattern rendered over its index range
Candidates(p) ==
    {Rendered(l, e) : l \in peers[p].layers_start..(peers[p].num_layers - 1),
                      e \in 0..(peers[p].num_experts - 1)}
Passed(p) == peers[p].pc \in {"building", "starting", "hosting"}
DeclaredBy(p) == {d.uid : d \in {x \in declared : x.peer = p}}

\* C21: the check of _generate_uids reserves nothing. A server passes it
\* exactly when none of its uids was declared at the moment of the check, the
\* check leaves the DHT as it found it, and a server declares its uids only
\* once its server thread runs; so two servers with the same pattern and
\* range can both pass and both host and declare the same uid.
C21_CheckDoesNotReserve ==
    /\ [](\A p \in Peers :
            /\ Passed(p) => /\ Candidates(p) \cap peers[p].seen = {}
                            /\ {peers[p].uids[i].uid : i \in 1..Len(peers[p].uids)}
                                 = Candidates(p)
            /\ peers[p].pc = "failed" => /\ Candidates(p) \cap peers[p].seen # {}
                                         /\ peers[p].raised = "NameError"
            /\ DeclaredBy(p) = IF peers[p].pc = "hosting" THEN Candidates(p) ELSE {})
    /\ [][\A p \in Peers :
            (peers[p].pc = "create" /\ peers'[p].pc # "create") =>
                declared' = declared]_vars

\* both servers, given the same range, passed the check and host and have
\* declared the same six uids
C21_Witness ==
    /\ \A p \in Peers : peers[p].pc = "hosting" /\ peers[p].raised = None
    /\ peers["A"].num_experts = 3 /\ peers["A"].num_layers = 2
    /\ peers["A"].layers_start = 0
    /\ peers["A"].uids = peers["B"].uids
    /\ DeclaredBy("A") = DeclaredBy("B")
    /\ "ffn.1.2" \in DeclaredBy("A")

\* the components run starts before the runtime, in the order of lines 245-255
StartedBeforeRuntime ==
    <<"dht">>
    \o (IF server.module_backends # <<>> THEN <<"dht_thread">> ELSE <<>>)
    \o (IF server.checkpoint_saver # None THEN <<"saver">> ELSE <<>>)
    \o <<"handlers">>

\* the steps of one shutdown() call of this server, in the order of lines 290-307
ShutdownSteps ==
    <<"clear", "handlers">>
    \o (IF server.module_backends # <<>>
        THEN <<"dht_thread.stop", "dht_thread.join">> ELSE <<>>)
    \o (IF server.checkpoint_saver # None THEN <<"saver.stop", "saver.join">> ELSE <<>>)
    \o <<"dht", "runtime">>

IsPrefixOf(p, q) == Len(p) <= Len(q) /\ SubSeq(q, 1, Len(p)) = p

\* C22: once runtime.run() has ended in Server.run, by returning or by
\* raising, the server thread is in shutdown() or has run it to its end, and
\* it does not end before that; and when the runtime is started or has
\* ended, the DHT, the announcement task (if experts are hosted), the
\* checkpoint task (if configured) and the handlers were started before it
C22_RunThenShutdown ==
    /\ comp.runtime = "stopped" =>
         /\ lsd.server # "none"
         /\ lpc.server \in {"finally", "ended"}
         /\ lpc.server = "ended" =>
              (lsd.server = "done" /\ comp.sd["server"] = ShutdownSteps)
    /\ comp.runtime \in {"running", "stopped"} =>
         /\ SelectSeq(comp.order, LAMBDA x : x # "runtime") = StartedBeforeRuntime
         /\ IsPrefixOf(StartedBeforeRuntime, comp.order)

\* the runtime raised while serving experts with checkpointing, and the
\* server thread has ended after its shutdown()
C22_Witness ==
    /\ comp.runtime = "stopped"
    /\ comp.raised = "RuntimeFailure"
    /\ lpc.server = "ended"
    /\ lsd.server = "done"
    /\ server.module_backends # <<>>
    /\ server.checkpoint_saver # None
    /\ comp.order = StartedBeforeRuntime \o <<"runtime">>

\* C23: the steps of one shutdown() call happen in the order: readiness
\* cleared, handlers shut down, announcement task signalled and joined,
\* checkpoint task signalled and joined, DHT shut down, runtime shut down;
\* and the DHT is not shut down while one of the two tasks is running
C23_ShutdownOrder ==
    /\ \A t \in Threads : IsPrefixOf(comp.sd[t], ShutdownSteps)
    /\ \A t \in Threads : lsd[t] = "done" <=> comp.sd[t] = ShutdownSteps
    /\ comp.dht = "shutdown" =>
         /\ comp.dht_thread # "running"
         /\ lpc.saver \notin {"waiting", "storing"}

\* the caller's shutdown() has run to its end on a server that had started
\* both tasks
C23_Witness ==
    /\ lsd.main = "done"
    /\ Len(comp.sd["main"]) = 8
    /\ comp.dht = "shutdown"
    /\ comp.dht_thread = "ended"
    /\ lpc.saver = "ended"

BothShutdownsDone ==
    /\ lsd.main = "done"
    /\ lsd.server = "done"
    /\ lpc.server = "ended"
    /\ server.module_backends # <<>> => (comp.dht_stop /\ comp.dht_thread = "ended")
    /\ server.checkpoint_saver # None =>
         (comp.saver_stop /\ lpc.saver \in {"ended", "died"})

\* C25: in the child of background_server, once the shutdown token has been
\* received, the shutdown() of _server_runner and the one of Server.run's
\* finally block both return, the announcement task is signalled and ends,
\* the server thread ends and the child exits; and the same two calls return
\* on a serving server that runs a checkpoint task, which is signalled and ends
C25_DoubleShutdownTerminates ==
    /\ (call.runner /\ comp.token = "received")
          ~> (BothShutdownsDone /\ lpc.main = "exited")
    /\ (~call.runner /\ lpc.main = "shutdown" /\ lpc.server = "serving")
          ~> (BothShutdownsDone /\ lpc.main = "finished")

\* the child has exited after the two shutdown() calls, with experts hosted
C25_Witness ==
    /\ call.runner
    /\ comp.token = "received"
    /\ lpc.main = "exited"
    /\ BothShutdownsDone
    /\ server.module_backends # <<>>
    /\ comp.sd["main"] = ShutdownSteps
    /\ comp.sd["server"] = ShutdownSteps

\* C26: a store cycle that raises in the checkpoint task ends that task and
\* changes nothing else: the step leaves the other threads, the components
\* and the readiness event as they were; from then on no store cycle starts
\* or completes; and a shutdown() call that runs with the task dead returns
C26_StoreFailure ==
    /\ [][(lpc.saver = "storing" /\ lpc'.saver = "died") =>
            /\ lpc'.main = lpc.main /\ lpc'.server = lpc.server
            /\ comp' = comp /\ server' = server /\ lsd' = lsd]_vars
    /\ [][lpc.saver = "died" =>
            /\ lpc'.saver = "died"
            /\ stamps' = stamps /\ ckpt' = ckpt
            /\ comp'.timeouts = comp.timeouts]_vars
    /\ \A t \in Threads :
         (lpc.saver = "died" /\ lsd[t] \notin {"none", "raised"}) ~> (lsd[t] = "done")

\* the checkpoint task died in its second periodic cycle with one expert's
\* directory merged; the runtime, the handlers and the announcement task
\* run, and the caller's shutdown() has since returned
C26_Witness ==
    /\ lpc.saver = "died"
    /\ comp.timeouts = 2
    /\ Len(stamps) = 2
    /\ lsd.main = "done"
    /\ comp.sd["main"] = ShutdownSteps
    /\ \E e \in ExpertNames : ModuleFile(2) \in NamesOf(ckpt, e)

====
